---------------------------- MODULE Spec2Model ----------------------------
(***************************************************************************)
(* Model of eth-types-rs: the transaction envelope codec, the signer, the  *)
(* block assembler and the bloom filter.                                   *)
(*                                                                         *)
(* Values are kept at byte level.  A U64 is a big-endian sequence of 8     *)
(* bytes, a U256 one of 32 bytes, an H160 one of 20 bytes and an H256 one  *)
(* of 32 bytes, so that integer width, RLP headers and hashes are those    *)
(* of the program.  Option<T> / Nilable<T> is a sequence of length 0 or 1. *)
(***************************************************************************)
EXTENDS Integers, Sequences, FiniteSets, TLC

VARIABLES
    tx,         \* codec: the TransactionInner under test
    wire,       \* codec: the byte string last produced or damaged
    decoded,    \* codec: outcome of TransactionInner::from_bytes(wire)
    txhash,     \* codec: outcome of TransactionInner::hash(tx)
    damage,     \* codec: how wire differs from to_bytes(tx)
    stx,            \* signer: the transaction handed to sign and sender
    prvkey,         \* signer: the private key
    sign_chain,     \* signer: chain_id of the Signer that signs
    overflow_checks,\* signer: whether the build panics on integer overflow
    signed_bytes,   \* signer: the bytes handed to secp256k1_rec_sign_bytes
    rec_sig,        \* signer: the signature the secp256k1 service returned
    sign_out,       \* signer: outcome of Signer::sign
    recover_chain,  \* signer: chain_id of the Signer that recovers
    sender_out,     \* signer: outcome of Signer::sender
    bloom,          \* bloom: the Bloom that add is called on
    added,          \* bloom: the items add was called with
    built,          \* bloom: outcome of create_bloom(built_from)
    built_from,     \* bloom: the receipts handed to create_bloom
    hdr_in,         \* block: the header handed to Block::new
    txs_in,         \* block: the transactions handed to Block::new
    receipts_in,    \* block: the receipts handed to Block::new
    wd_in,          \* block: the withdrawals handed to Block::new
    block_out,      \* block: outcome of Block::new
    trie_calls,     \* block: ordered_trie_root calls Block::new made
    fee_tx,         \* fee: the transaction the fee accessors are called on
    fee_base,       \* fee: the base fee handed to them (an Option)
    price_out,      \* fee: outcome of gas_price(fee_base)
    tip_out,        \* fee: outcome of effective_gas_tip(fee_base)
    cost_out,       \* fee: outcome of cost(fee_base)
    proj_out,        \* fee: outcome of to_transaction(header with fee_base)
    msg_tx,         \* msg: the transaction sign_msg is called on
    msg_chain,      \* msg: the chain_id handed to sign_msg
    msg_out,        \* msg: outcome of sign_msg
    msg_from,        \* msg: the transaction msg_out was built from
    rcpt,           \* receipt: the Receipt under test
    status_out,     \* receipt: outcome of Receipt::status_encoding
    succ_out,       \* receipt: outcome of Receipt::succ
    rbytes_out,      \* receipt: outcome of Receipt::rlp_bytes
    hdr,            \* header: the BlockHeader under test
    hdr_bytes,      \* header: outcome of rlp encode of hdr
    hdr_hash,       \* header: outcome of BlockHeader hash
    hdr_back,        \* header: outcome of rlp decode of hdr_bytes
    ord_txs,        \* ord: the three TransactionInner values compared
    ord_out,         \* ord: outcome of partial_cmp per compared pair
    rc_want,        \* compare: the receipt Receipt::compare takes as want
    rc_got,         \* compare: the receipt it takes as got
    rc_out,         \* compare: outcome of Receipt::compare
    bc_want,        \* compare: the block Block::compare takes as want
    bc_got,         \* compare: the block it takes as got
    bc_out,          \* compare: outcome of Block::compare
    fs_self,        \* fetch: the FetchState that merge is called on
    fs_other,       \* fetch: the FetchState handed to merge
    fs_before,       \* fetch: fs_self before the merge
    acl,            \* access: the AccessListResult under test
    acl_prev,       \* access: acl before the last call
    acl_call,       \* access: the last call and its arguments
    acl_seen        \* access: the addresses passed to the calls so far

codecVars == <<tx, wire, decoded, txhash, damage>>
signerVars == <<stx, prvkey, sign_chain, overflow_checks, signed_bytes,
                rec_sig, sign_out, recover_chain, sender_out>>
bloomVars == <<bloom, added, built, built_from>>
blockVars == <<hdr_in, txs_in, receipts_in, wd_in, block_out, trie_calls>>
feeVars == <<fee_tx, fee_base, price_out, tip_out, cost_out, proj_out>>
msgVars == <<msg_tx, msg_chain, msg_out, msg_from>>
receiptVars == <<rcpt, status_out, succ_out, rbytes_out>>
headerVars == <<hdr, hdr_bytes, hdr_hash, hdr_back>>
ordVars == <<ord_txs, ord_out>>
compareVars == <<rc_want, rc_got, rc_out, bc_want, bc_got, bc_out>>
fetchVars == <<fs_self, fs_other, fs_before>>
accessVars == <<acl, acl_prev, acl_call, acl_seen>>
vars == <<codecVars, signerVars, bloomVars, blockVars, feeVars, msgVars,
         receiptVars, headerVars, ordVars, compareVars, fetchVars,
         accessVars>>

-----------------------------------------------------------------------------
(* Bytes and fixed-width big-endian integers                               *)

Byte == 0..255

None == <<>>
Some(x) == <<x>>

Zeros(n) == [i \in 1..n |-> 0]

\* ethereum_types U64 is 8 bytes wide, U256 and H256 32 bytes, H160 20 bytes.
U64_BYTES == 8
U256_BYTES == 32
H160_BYTES == 20
H256_BYTES == 32

\* big-endian image of a small natural in a field of w bytes
FromNat(n, w) ==
    [i \in 1..w |-> IF w - i >= 4 THEN 0 ELSE (n \div (256 ^ (w - i))) % 256]

U64Of(n) == FromNat(n, U64_BYTES)
U256Of(n) == FromNat(n, U256_BYTES)

RECURSIVE StripZeros(_)
StripZeros(b) ==
    IF b = <<>> THEN <<>>
    ELSE IF Head(b) = 0 THEN StripZeros(Tail(b)) ELSE b

PadLeft(b, w) == Zeros(w - Len(b)) \o b

\* decode_usize: a big-endian length of at most three bytes
RECURSIVE BeToNat(_)
BeToNat(b) ==
    IF b = <<>> THEN 0 ELSE BeToNat(SubSeq(b, 1, Len(b) - 1)) * 256 + b[Len(b)]

\* minimal big-endian bytes of a length (to_be_bytes with leading zeros cut)
NatToBe(n) == StripZeros(FromNat(n, 4))

-----------------------------------------------------------------------------
(* RLP encoding (rlp::RlpStream)                                           *)

\* BasicEncoder::encode_value
EncodeValue(bytes) ==
    IF Len(bytes) = 0 THEN <<128>>
    ELSE IF Len(bytes) = 1 /\ bytes[1] < 128 THEN bytes
    ELSE IF Len(bytes) <= 55 THEN <<128 + Len(bytes)>> \o bytes
    ELSE <<183 + Len(NatToBe(Len(bytes)))>> \o NatToBe(Len(bytes)) \o bytes

\* BasicEncoder::insert_list_payload: the header put before a finished list
ListHeader(len) ==
    IF len <= 55 THEN <<192 + len>>
    ELSE <<247 + Len(NatToBe(len))>> \o NatToBe(len)

RECURSIVE Concat(_)
Concat(items) ==
    IF items = <<>> THEN <<>> ELSE Head(items) \o Concat(Tail(items))

\* a list of n already encoded items: begin_list(n), n appends, the header
EncodeList(items) == ListHeader(Len(Concat(items))) \o Concat(items)

\* impl Encodable for U64 / U256: the big-endian bytes without leading zeros
EncodeUint(x) == EncodeValue(StripZeros(x))

\* impl Encodable for H160 / H256: all bytes, fixed width
EncodeFixed(h) == EncodeValue(h)

\* impl Encodable for Nilable<T>: NULL_RLP when absent
NULL_RLP == <<128>>
EncodeNilable(opt) ==
    IF opt = None THEN NULL_RLP ELSE EncodeFixed(opt[1])

EncodeAccessTuple(t) ==
    EncodeList(<<EncodeFixed(t.address),
                 EncodeList([i \in 1..Len(t.storage_keys) |->
                                EncodeFixed(t.storage_keys[i])])>>)

EncodeAccessList(al) ==
    EncodeList([i \in 1..Len(al) |-> EncodeAccessTuple(al[i])])

-----------------------------------------------------------------------------
(* Transactions (tx.rs)                                                    *)

LegacyFields(t) ==
    <<EncodeUint(t.nonce), EncodeUint(t.gas_price), EncodeUint(t.gas),
      EncodeNilable(t.to), EncodeUint(t.value), EncodeValue(t.data),
      EncodeUint(t.v), EncodeUint(t.r), EncodeUint(t.s)>>

AccessListFields(t) ==
    <<EncodeUint(t.chain_id), EncodeUint(t.nonce), EncodeUint(t.gas_price),
      EncodeUint(t.gas), EncodeNilable(t.to), EncodeUint(t.value),
      EncodeValue(t.data), EncodeAccessList(t.access_list),
      EncodeUint(t.v), EncodeUint(t.r), EncodeUint(t.s)>>

DynamicFeeFields(t) ==
    <<EncodeUint(t.chain_id), EncodeUint(t.nonce),
      EncodeUint(t.max_priority_fee_per_gas), EncodeUint(t.max_fee_per_gas),
      EncodeUint(t.gas), EncodeNilable(t.to), EncodeUint(t.value),
      EncodeValue(t.data), EncodeAccessList(t.access_list),
      EncodeUint(t.v), EncodeUint(t.r), EncodeUint(t.s)>>

\* variant: the type byte is appended as the first item of the list
RlpAppendTx_TagInside(t) ==
    CASE t.ty = 0 -> EncodeList(LegacyFields(t))
      [] t.ty = 1 -> EncodeList(<<<<1>>>> \o AccessListFields(t))
      [] t.ty = 2 -> EncodeList(<<<<2>>>> \o DynamicFeeFields(t))

\* impl rlp::Encodable for TransactionInner
RlpAppendTx(t) ==
    CASE t.ty = 0 -> EncodeList(LegacyFields(t))
      [] t.ty = 1 -> <<1>> \o EncodeList(AccessListFields(t))
      [] t.ty = 2 -> <<2>> \o EncodeList(DynamicFeeFields(t))

\* TransactionInner::to_bytes
to_bytes(t) == RlpAppendTx(t)


-----------------------------------------------------------------------------
(* Outcomes of fallible operations                                         *)

Ok(v) == [kind |-> "Ok", val |-> v]
Err(e) == [kind |-> "Err", err |-> e]
Panic(m) == [kind |-> "Panic", msg |-> m]
NotRun == [kind |-> "NotRun"]

IsOk(r) == r.kind = "Ok"

\* the ? operator: go on with the value, or return the error as it is
Try(r, K(_)) == IF IsOk(r) THEN K(r.val) ELSE r

\* go on with the value, or give the fallback
TryOr(r, K(_), otherwise) == IF IsOk(r) THEN K(r.val) ELSE otherwise

-----------------------------------------------------------------------------
(* RLP decoding (rlp::Rlp, rlp_derive::RlpDecodable)                       *)

\* calculate_payload_info: a long-form header with len_of_len length bytes
CalculatePayloadInfo(b, len_of_len) ==
    IF Len(b) < 2 THEN Err("RlpIsTooShort")
    ELSE IF b[2] = 0 THEN Err("RlpDataLenWithZeroPrefix")
    ELSE IF Len(b) < 1 + len_of_len THEN Err("RlpIsTooShort")
    ELSE IF len_of_len > 3 THEN Err("RlpIsTooShort")
    ELSE LET value_len == BeToNat(SubSeq(b, 2, 1 + len_of_len))
         IN  IF value_len <= 55 THEN Err("RlpInvalidIndirection")
             ELSE Ok([header_len |-> 1 + len_of_len, value_len |-> value_len])

\* PayloadInfo::from
PayloadInfoFrom(b) ==
    IF b = <<>> THEN Err("RlpIsTooShort")
    ELSE LET l == b[1]
         IN  IF l <= 127 THEN Ok([header_len |-> 0, value_len |-> 1])
             ELSE IF l <= 183 THEN Ok([header_len |-> 1, value_len |-> l - 128])
             ELSE IF l <= 191 THEN CalculatePayloadInfo(b, l - 183)
             ELSE IF l <= 247 THEN Ok([header_len |-> 1, value_len |-> l - 192])
             ELSE CalculatePayloadInfo(b, l - 247)

\* BasicDecoder::payload_info: the item must lie within the bytes
PayloadInfo(b) ==
    Try(PayloadInfoFrom(b),
        LAMBDA item : IF item.header_len + item.value_len <= Len(b)
                      THEN Ok(item) ELSE Err("RlpIsTooShort"))

\* Rlp::is_list, Rlp::is_empty
IsList(b) == b # <<>> /\ b[1] >= 192
IsEmpty(b) == b # <<>> /\ (b[1] = 192 \/ b[1] = 128)

\* Rlp::consume_list_payload
ConsumeListPayload(b) ==
    Try(PayloadInfo(b),
        LAMBDA item : Ok(SubSeq(b, item.header_len + 1,
                                item.header_len + item.value_len)))

\* Rlp::consume_items: skip n items
RECURSIVE ConsumeItems(_, _)
ConsumeItems(bytes, n) ==
    IF n = 0 THEN Ok(bytes)
    ELSE Try(PayloadInfo(bytes),
             LAMBDA i : ConsumeItems(
                            SubSeq(bytes, i.header_len + i.value_len + 1,
                                   Len(bytes)), n - 1))

\* Rlp::at: the index-th item of a list, header included
At(b, index) ==
    IF ~IsList(b) THEN Err("RlpExpectedToBeList")
    ELSE Try(ConsumeListPayload(b),
             LAMBDA payload :
                 Try(ConsumeItems(payload, index),
                     LAMBDA rest :
                         Try(PayloadInfo(rest),
                             LAMBDA found :
                                 Ok(SubSeq(rest, 1, found.header_len
                                                    + found.value_len)))))

\* RlpIterator: the items of a list up to the first that cannot be read
RECURSIVE ItemsOf(_)
ItemsOf(bytes) ==
    TryOr(PayloadInfo(bytes),
          LAMBDA i : <<SubSeq(bytes, 1, i.header_len + i.value_len)>>
                     \o ItemsOf(SubSeq(bytes, i.header_len + i.value_len + 1,
                                       Len(bytes))),
          <<>>)

Iter(b) ==
    IF ~IsList(b) THEN <<>>
    ELSE TryOr(ConsumeListPayload(b), ItemsOf, <<>>)

\* Rlp::item_count
ItemCount(b) ==
    IF IsList(b) THEN Ok(Len(Iter(b))) ELSE Err("RlpExpectedToBeList")

\* BasicDecoder::decode_value: the payload of a string item
DecodeValue(b) ==
    IF b = <<>> THEN Err("RlpIsTooShort")
    ELSE LET l == b[1]
         IN  IF l <= 127 THEN Ok(<<l>>)
             ELSE IF l <= 183 THEN
                  IF Len(b) < 1 + l - 128
                  THEN Err("RlpInconsistentLengthAndData")
                  ELSE IF l = 129 /\ b[2] < 128 THEN Err("RlpInvalidIndirection")
                  ELSE Ok(SubSeq(b, 2, 1 + l - 128))
             ELSE IF l <= 191 THEN
                  LET len_of_len == l - 183
                      begin_of_value == 1 + len_of_len
                  IN  IF Len(b) < begin_of_value \/ len_of_len > 3
                      THEN Err("RlpInconsistentLengthAndData")
                      ELSE IF b[2] = 0 THEN Err("RlpInvalidIndirection")
                      ELSE LET len == BeToNat(SubSeq(b, 2, begin_of_value))
                           IN  IF Len(b) < begin_of_value + len
                               THEN Err("RlpInconsistentLengthAndData")
                               ELSE Ok(SubSeq(b, begin_of_value + 1,
                                              begin_of_value + len))
             ELSE Err("RlpExpectedToBeData")

\* impl Decodable for U64 / U256 (w bytes wide)
DecodeUint(b, w) ==
    Try(DecodeValue(b),
        LAMBDA d : IF d # <<>> /\ d[1] = 0 THEN Err("RlpInvalidIndirection")
                   ELSE IF Len(d) <= w THEN Ok(PadLeft(d, w))
                   ELSE Err("RlpIsTooBig"))

\* impl Decodable for H160 / H256 (exactly w bytes)
DecodeFixed(b, w) ==
    Try(DecodeValue(b),
        LAMBDA d : IF Len(d) < w THEN Err("RlpIsTooShort")
                   ELSE IF Len(d) > w THEN Err("RlpIsTooBig")
                   ELSE Ok(d))

DecodeU64(b) == DecodeUint(b, U64_BYTES)
DecodeU256(b) == DecodeUint(b, U256_BYTES)
DecodeH160(b) == DecodeFixed(b, H160_BYTES)
DecodeH256(b) == DecodeFixed(b, H256_BYTES)

\* variant: the empty item is not recognised as an absent value
DecodeNilable_NoEmptyCheck(b) ==
    Try(DecodeH160(b), LAMBDA n : Ok(Some(n)))

\* impl Decodable for Nilable<T>
DecodeNilable(b) ==
    IF IsEmpty(b) THEN Ok(None)
    ELSE Try(DecodeH160(b), LAMBDA n : Ok(Some(n)))

\* the first result that is not Ok
FirstErr(rs) == rs[CHOOSE i \in 1..Len(rs) :
                      ~IsOk(rs[i]) /\ \A j \in 1..(i - 1) : IsOk(rs[j])]
AllOk(rs) == \A i \in 1..Len(rs) : IsOk(rs[i])

\* collect::<Result<Vec<_>, _>>: the values, or the first error
Collect(rs) ==
    IF AllOk(rs) THEN Ok([i \in 1..Len(rs) |-> rs[i].val]) ELSE FirstErr(rs)

MapItems(items, D(_)) == [i \in 1..Len(items) |-> D(items[i])]

\* Rlp::as_list::<T>
AsList(b, D(_)) == Collect(MapItems(Iter(b), D))

\* Rlp::val_at::<T>, Rlp::list_at::<T>
ValAt(b, i, D(_)) == Try(At(b, i), D)
ListAt(b, i, D(_)) == Try(At(b, i), LAMBDA a : AsList(a, D))

\* the struct of the decoded fields, or the first error among them
AccessTupleOf(rs) ==
    IF AllOk(rs)
    THEN Ok([address |-> rs[1].val, storage_keys |-> rs[2].val])
    ELSE FirstErr(rs)

\* #[derive(RlpDecodable)] struct TransactionAccessTuple
DecodeAccessTuple(b) ==
    AccessTupleOf(<<ValAt(b, 0, DecodeH160), ListAt(b, 1, DecodeH256)>>)

LegacyTxOf(rs) ==
    IF AllOk(rs)
    THEN Ok([ty |-> 0, nonce |-> rs[1].val, gas_price |-> rs[2].val,
             gas |-> rs[3].val, to |-> rs[4].val, value |-> rs[5].val,
             data |-> rs[6].val, v |-> rs[7].val, r |-> rs[8].val,
             s |-> rs[9].val])
    ELSE FirstErr(rs)

\* #[derive(RlpDecodable)] struct LegacyTx
DecodeLegacyTx(b) ==
    LegacyTxOf(<<ValAt(b, 0, DecodeU64), ValAt(b, 1, DecodeU256),
                 ValAt(b, 2, DecodeU64), ValAt(b, 3, DecodeNilable),
                 ValAt(b, 4, DecodeU256), ValAt(b, 5, DecodeValue),
                 ValAt(b, 6, DecodeU256), ValAt(b, 7, DecodeU256),
                 ValAt(b, 8, DecodeU256)>>)

AccessListTxOf(rs) ==
    IF AllOk(rs)
    THEN Ok([ty |-> 1, chain_id |-> rs[1].val, nonce |-> rs[2].val,
             gas_price |-> rs[3].val, gas |-> rs[4].val, to |-> rs[5].val,
             value |-> rs[6].val, data |-> rs[7].val,
             access_list |-> rs[8].val, v |-> rs[9].val, r |-> rs[10].val,
             s |-> rs[11].val])
    ELSE FirstErr(rs)

\* #[derive(RlpDecodable)] struct AccessListTx
DecodeAccessListTx(b) ==
    AccessListTxOf(<<ValAt(b, 0, DecodeU256), ValAt(b, 1, DecodeU64),
                     ValAt(b, 2, DecodeU256), ValAt(b, 3, DecodeU64),
                     ValAt(b, 4, DecodeNilable), ValAt(b, 5, DecodeU256),
                     ValAt(b, 6, DecodeValue),
                     ListAt(b, 7, DecodeAccessTuple),
                     ValAt(b, 8, DecodeU256), ValAt(b, 9, DecodeU256),
                     ValAt(b, 10, DecodeU256)>>)

DynamicFeeTxOf(rs) ==
    IF AllOk(rs)
    THEN Ok([ty |-> 2, chain_id |-> rs[1].val, nonce |-> rs[2].val,
             max_priority_fee_per_gas |-> rs[3].val,
             max_fee_per_gas |-> rs[4].val, gas |-> rs[5].val,
             to |-> rs[6].val, value |-> rs[7].val, data |-> rs[8].val,
             access_list |-> rs[9].val, v |-> rs[10].val,
             r |-> rs[11].val, s |-> rs[12].val])
    ELSE FirstErr(rs)

\* #[derive(RlpDecodable)] struct DynamicFeeTx
DecodeDynamicFeeTx(b) ==
    DynamicFeeTxOf(<<ValAt(b, 0, DecodeU256), ValAt(b, 1, DecodeU64),
                     ValAt(b, 2, DecodeU256), ValAt(b, 3, DecodeU256),
                     ValAt(b, 4, DecodeU64), ValAt(b, 5, DecodeNilable),
                     ValAt(b, 6, DecodeU256), ValAt(b, 7, DecodeValue),
                     ListAt(b, 8, DecodeAccessTuple),
                     ValAt(b, 9, DecodeU256), ValAt(b, 10, DecodeU256),
                     ValAt(b, 11, DecodeU256)>>)

\* n[0] of a slice: an index out of bounds aborts
FirstByte(n) ==
    IF Len(n) < 1 THEN Panic("index out of bounds") ELSE Ok(n[1])

\* the match on the type byte, after the length check
DecodeTyped(n) ==
    LET first == FirstByte(n)
    IN  IF ~IsOk(first) THEN first
        ELSE CASE first.val = 1 -> DecodeAccessListTx(Tail(n))
               [] first.val = 2 -> DecodeDynamicFeeTx(Tail(n))
               [] OTHER -> Err("unknown tx prefix")

\* impl rlp::Decodable for TransactionInner
DecodeTx(rlp) ==
    IF IsList(rlp) THEN DecodeLegacyTx(rlp)
    ELSE IF Len(rlp) < 1 THEN Err("RlpIsTooShort")
    ELSE DecodeTyped(rlp)

\* TransactionInner::from_bytes
from_bytes(data) == DecodeTx(data)

-----------------------------------------------------------------------------
(* keccak-256 (crypto::keccak_hash), an external collaborator.  The model  *)
(* uses a deterministic stand-in with a 32-byte digest; no property below  *)
(* rests on which function it is.                                          *)

RECURSIVE Absorb(_, _, _)
Absorb(data, lo, hi) ==
    IF lo > hi THEN 1
    ELSE IF lo = hi THEN (data[lo] + 3 * lo + 1) % 65521
    ELSE LET mid == (lo + hi) \div 2
         IN  (Absorb(data, lo, mid) * 131 + Absorb(data, mid + 1, hi)) % 65521

keccak_hash(data) ==
    LET st == Absorb(data, 1, Len(data))
    IN  [i \in 1..H256_BYTES |-> (st * (2 * i + 1) + (st \div 251) + 7 * i) % 256]

\* variant: the digest is taken over the RLP list without the type byte
hash_ListOnly(t) ==
    keccak_hash(IF t.ty = 0 THEN RlpAppendTx(t) ELSE Tail(RlpAppendTx(t)))

\* impl Hasher for TransactionInner
hash(t) == keccak_hash(RlpAppendTx(t))

-----------------------------------------------------------------------------
(* Inputs of the codec specification                                       *)

MaxTuples == 1      \* access-list entries per transaction
MaxKeys == 1        \* storage keys per access-list entry
MaxKeep == 2        \* a truncation keeps at most this many leading bytes ...
MaxCut == 2         \* ... or drops at most this many trailing bytes

SeqsUpTo(S, n) == UNION {[1..k -> S] : k \in 0..n}

AddrA == [i \in 1..H160_BYTES |-> 171]
KeyA == [i \in 1..H256_BYTES |-> i]
Data56 == [i \in 1..56 |-> 1]
BigValue == [i \in 1..U256_BYTES |-> 255]
SigR == [i \in 1..U256_BYTES |-> 200 - i]
SigS == U256Of(12345)

AccessTuples ==
    {[address |-> AddrA, storage_keys |-> ks] : ks \in SeqsUpTo({KeyA}, MaxKeys)}
AccessLists == SeqsUpTo(AccessTuples, MaxTuples)

ToValues == {None, Some(AddrA)}
DataValues == {<<>>, <<128>>, Data56}
ValueValues == {U256Of(0), BigValue}
VValues == {U256Of(27), U256Of(37)}

LegacyTxs ==
    {[ty |-> 0, nonce |-> U64Of(0), gas_price |-> U256Of(1000000000),
      gas |-> U64Of(21000), to |-> to, value |-> value, data |-> data,
      v |-> v, r |-> SigR, s |-> SigS] :
        to \in ToValues, value \in ValueValues, data \in DataValues,
        v \in VValues}

AccessListTxs ==
    {[ty |-> 1, chain_id |-> U256Of(1), nonce |-> U64Of(0),
      gas_price |-> U256Of(1000000000), gas |-> U64Of(21000), to |-> to,
      value |-> value, data |-> data, access_list |-> al,
      v |-> U256Of(1), r |-> SigR, s |-> SigS] :
        to \in ToValues, value \in ValueValues, data \in DataValues,
        al \in AccessLists}

DynamicFeeTxs ==
    {[ty |-> 2, chain_id |-> U256Of(1), nonce |-> U64Of(0),
      max_priority_fee_per_gas |-> U256Of(2),
      max_fee_per_gas |-> U256Of(1000000000), gas |-> U64Of(21000),
      to |-> to, value |-> value, data |-> data, access_list |-> al,
      v |-> U256Of(0), r |-> SigR, s |-> SigS] :
        to \in ToValues, value \in ValueValues, data \in DataValues,
        al \in AccessLists}

TxInputs == LegacyTxs \cup AccessListTxs \cup DynamicFeeTxs

\* first bytes a damaged input may carry
TagBytes == {0, 1, 2, 3, 127, 128, 192}

-----------------------------------------------------------------------------
(* The codec specification: encode, damage, decode and hash one transaction *)

CodecInit ==
    /\ tx \in TxInputs
    /\ wire = <<>>
    /\ decoded = NotRun
    /\ txhash = NotRun
    /\ damage = "empty"

\* wire := tx.to_bytes()
ToBytes ==
    /\ wire' = to_bytes(tx)
    /\ damage' = "none"
    /\ decoded' = NotRun
    /\ UNCHANGED <<tx, txhash>>

\* the input loses its tail
Truncate ==
    /\ damage = "none"
    /\ \E n \in (0..MaxKeep) \cup ((Len(wire) - MaxCut)..(Len(wire) - 1)) :
          /\ n < Len(wire)
          /\ wire' = SubSeq(wire, 1, n)
    /\ damage' = "truncated"
    /\ decoded' = NotRun
    /\ UNCHANGED <<tx, txhash>>

\* the input gets another first byte
Retag ==
    /\ damage = "none"
    /\ \E b \in TagBytes :
          /\ b # wire[1]
          /\ wire' = [wire EXCEPT ![1] = b]
    /\ damage' = "retagged"
    /\ decoded' = NotRun
    /\ UNCHANGED <<tx, txhash>>

\* the list of fields gets one more item, the empty string, and its header
\* counts it
Surplus(t) ==
    CASE t.ty = 0 -> EncodeList(Append(LegacyFields(t), NULL_RLP))
      [] t.ty = 1 -> <<1>> \o EncodeList(Append(AccessListFields(t), NULL_RLP))
      [] t.ty = 2 -> <<2>> \o EncodeList(Append(DynamicFeeFields(t), NULL_RLP))

Extend ==
    /\ damage = "none"
    /\ wire' = Surplus(tx)
    /\ damage' = "extended"
    /\ decoded' = NotRun
    /\ UNCHANGED <<tx, txhash>>

\* a byte follows the encoding
Pad ==
    /\ damage = "none"
    /\ wire' = Append(wire, 0)
    /\ damage' = "padded"
    /\ decoded' = NotRun
    /\ UNCHANGED <<tx, txhash>>

\* decoded := TransactionInner::from_bytes(&wire)
FromBytes ==
    /\ decoded' = from_bytes(wire)
    /\ UNCHANGED <<tx, wire, txhash, damage>>

\* txhash := tx.hash()
Hash ==
    /\ txhash' = Ok(hash(tx))
    /\ UNCHANGED <<tx, wire, decoded, damage>>

-----------------------------------------------------------------------------
(* Properties of the codec                                                 *)

Decoded == decoded.kind # "NotRun"

\* C1: decoding the encoding of a transaction gives back that transaction,
\* field for field, for each variant, with `to` absent or present and the
\* access list empty or not.
C1_RoundTrip ==
    (damage = "none" /\ Decoded) => decoded = Ok(tx)

C1_Witness ==
    /\ damage = "none" /\ decoded = Ok(tx)
    /\ tx.ty = 2 /\ tx.to = None /\ tx.access_list = <<>>

\* C2: decoding always returns.  A list input is decoded as Legacy, a first
\* byte 1 as AccessList, 2 as DynamicFee; empty input, any other first byte,
\* and a malformed body (truncated, under another type byte, with a surplus
\* field, or followed by a byte) give Err; no input aborts.
C2_DecodeDispatch ==
    Decoded =>
        /\ decoded.kind \in {"Ok", "Err"}
        /\ decoded.kind = "Ok" =>
              IF IsList(wire) THEN decoded.val.ty = 0
              ELSE wire[1] \in {1, 2} /\ decoded.val.ty = wire[1]
        /\ (wire = <<>> \/ (~IsList(wire) /\ wire[1] \notin {1, 2}))
              => decoded.kind = "Err"
        /\ damage \in {"truncated", "retagged", "extended", "padded"}
              => decoded.kind = "Err"
        /\ damage = "none" => decoded.kind = "Ok"

\* C3: the encoding of a Legacy transaction is one RLP list of 9 items in
\* the order nonce, gas_price, gas, to, value, data, v, r, s, with the empty
\* item for an absent `to`; a typed transaction is its type byte followed by
\* one RLP list of 11 (AccessList) or 12 (DynamicFee) items whose header
\* counts the list payload only.
WholeList(b) ==
    /\ IsList(b)
    /\ IsOk(PayloadInfoFrom(b))
    /\ PayloadInfoFrom(b).val.header_len + PayloadInfoFrom(b).val.value_len = Len(b)

C3_EncodingShape ==
    damage = "none" =>
        CASE tx.ty = 0 ->
               /\ WholeList(wire)
               /\ Len(Iter(wire)) = 9
               /\ DecodeUint(Iter(wire)[1], U64_BYTES) = Ok(tx.nonce)
               /\ DecodeUint(Iter(wire)[2], U256_BYTES) = Ok(tx.gas_price)
               /\ DecodeUint(Iter(wire)[3], U64_BYTES) = Ok(tx.gas)
               /\ (tx.to = None <=> Iter(wire)[4] = <<128>>)
               /\ (tx.to # None => DecodeFixed(Iter(wire)[4], H160_BYTES) = Ok(tx.to[1]))
               /\ DecodeUint(Iter(wire)[5], U256_BYTES) = Ok(tx.value)
               /\ DecodeValue(Iter(wire)[6]) = Ok(tx.data)
               /\ DecodeUint(Iter(wire)[7], U256_BYTES) = Ok(tx.v)
               /\ DecodeUint(Iter(wire)[8], U256_BYTES) = Ok(tx.r)
               /\ DecodeUint(Iter(wire)[9], U256_BYTES) = Ok(tx.s)
          [] tx.ty = 1 ->
               /\ wire[1] = 1
               /\ WholeList(Tail(wire))
               /\ Len(Iter(Tail(wire))) = 11
          [] tx.ty = 2 ->
               /\ wire[1] = 2
               /\ WholeList(Tail(wire))
               /\ Len(Iter(Tail(wire))) = 12

C3_Witness ==
    /\ damage = "none" /\ tx.ty = 1 /\ Len(wire) > 57
    /\ Tail(wire)[1] = 248 /\ tx.to = None

\* C4: hash(tx) is keccak256 of to_bytes(tx), and the transaction decoded
\* from to_bytes(tx) has the same hash as tx.
C4_HashStable ==
    /\ (damage = "none" /\ txhash # NotRun) => txhash = Ok(keccak_hash(wire))
    /\ (damage = "none" /\ Decoded) =>
          (IsOk(decoded) /\ hash(decoded.val) = hash(tx))

C4_Witness ==
    /\ damage = "none" /\ txhash # NotRun /\ IsOk(decoded)
    /\ tx.ty = 1 /\ hash(decoded.val) = txhash.val

-----------------------------------------------------------------------------
(* 64-bit arithmetic on big-endian byte sequences                          *)

RECURSIVE CarryOut(_, _, _)
CarryOut(a, b, i) ==
    IF i > Len(a) THEN 0 ELSE (a[i] + b[i] + CarryOut(a, b, i + 1)) \div 256

\* a + b in the width of a, with the carry out of the top byte
AddBE(a, b) ==
    [val |-> [i \in 1..Len(a) |-> (a[i] + b[i] + CarryOut(a, b, i + 1)) % 256],
     overflow |-> CarryOut(a, b, 1) = 1]

RECURSIVE BorrowOut(_, _, _)
BorrowOut(a, b, i) ==
    IF i > Len(a) THEN 0
    ELSE IF a[i] - b[i] - BorrowOut(a, b, i + 1) < 0 THEN 1 ELSE 0

\* a - b in the width of a, with the borrow out of the top byte
SubBE(a, b) ==
    [val |-> [i \in 1..Len(a) |->
                 (256 + a[i] - b[i] - BorrowOut(a, b, i + 1)) % 256],
     overflow |-> BorrowOut(a, b, 1) = 1]

\* U256::as_u64: aborts when the value does not fit
as_u64(x) ==
    IF SubSeq(x, 1, U256_BYTES - U64_BYTES) = Zeros(U256_BYTES - U64_BYTES)
    THEN Ok(SubSeq(x, U256_BYTES - U64_BYTES + 1, U256_BYTES))
    ELSE Panic("Integer overflow when casting to u64")

\* U256::as_u32: aborts when the value does not fit
as_u32(x) ==
    IF SubSeq(x, 1, U256_BYTES - 4) = Zeros(U256_BYTES - 4)
    THEN Ok(SubSeq(x, U256_BYTES - 3, U256_BYTES))
    ELSE Panic("Integer overflow when casting to u32")

\* From<u64> for SU256
U256FromU64(x) == PadLeft(x, U256_BYTES)

\* a chain of u64 operations: with overflow checks the first overflow aborts,
\* without them every result wraps
Arith(steps, checks) ==
    IF checks /\ \E i \in 1..Len(steps) : steps[i].overflow
    THEN Panic("arithmetic overflow")
    ELSE Ok(steps[Len(steps)].val)

-----------------------------------------------------------------------------
(* The secp256k1 service (crypto crate), an external collaborator: a       *)
(* deterministic signature with recovery id 0 or 1, and a recovery that    *)
(* returns the signing key for the message that was signed.                *)

Keys == {1, 2}

PubKeyBytes(k) == [i \in 1..64 |-> (k * 37 + i) % 256]

\* secp256k1_rec_sign_bytes
secp256k1_rec_sign_bytes(k, msg) ==
    LET d == keccak_hash(msg)
    IN  [v |-> (k + d[1]) % 2,
         r |-> keccak_hash(<<k>> \o d),
         s |-> keccak_hash(<<k, k>> \o d)]

\* secp256k1_recover_pubkey: the key whose signature of msg this is; any
\* other input recovers a key that belongs to nobody in Keys
secp256k1_recover_pubkey(sig, msg) ==
    IF \E k \in Keys : secp256k1_rec_sign_bytes(k, msg) = sig
    THEN PubKeyBytes(CHOOSE k \in Keys : secp256k1_rec_sign_bytes(k, msg) = sig)
    ELSE PubKeyBytes(0)

\* Secp256k1PublicKey::eth_accountid: the last 20 bytes of the key's hash
eth_accountid(pubkey) ==
    SubSeq(keccak_hash(pubkey), H256_BYTES - H160_BYTES + 1, H256_BYTES)

AddressOf(k) == eth_accountid(PubKeyBytes(k))

-----------------------------------------------------------------------------
(* Signing and recovery (tx.rs, signer.rs)                                 *)

\* TransactionInner::sign_msg
sign_msg(t, chain_id) ==
    CASE t.ty = 2 ->
           Ok(<<2>> \o EncodeList(
               <<EncodeUint(t.chain_id), EncodeUint(t.nonce),
                 EncodeUint(t.max_priority_fee_per_gas),
                 EncodeUint(t.max_fee_per_gas), EncodeUint(t.gas),
                 EncodeNilable(t.to), EncodeUint(t.value),
                 EncodeValue(t.data), EncodeAccessList(t.access_list)>>))
      [] t.ty = 1 ->
           Ok(<<1>> \o EncodeList(
               <<EncodeUint(t.chain_id), EncodeUint(t.nonce),
                 EncodeUint(t.gas_price), EncodeUint(t.gas),
                 EncodeNilable(t.to), EncodeUint(t.value),
                 EncodeValue(t.data), EncodeAccessList(t.access_list)>>))
      [] t.ty = 0 ->
           LET v == as_u64(t.v)
               is_protected ==
                   v.val \notin {U64Of(27), U64Of(28), U64Of(1), U64Of(0)}
               six == <<EncodeUint(t.nonce), EncodeUint(t.gas_price),
                        EncodeUint(t.gas), EncodeNilable(t.to),
                        EncodeUint(t.value), EncodeValue(t.data)>>
           IN  IF ~IsOk(v) THEN v
               ELSE IF is_protected
               THEN Ok(EncodeList(six \o <<EncodeUint(chain_id),
                                           EncodeUint(U64Of(0)),
                                           EncodeUint(U64Of(0))>>))
               ELSE Ok(EncodeList(six))

\* Signer::msg
msg(signer_chain_id, t) == sign_msg(t, signer_chain_id)

\* TransactionInner::signature: the recovery id and r, s of the stored
\* signature
signature(t, chain_id, checks) ==
    IF t.ty = 0
    THEN LET v64 == as_u64(t.v)
             twice == AddBE(chain_id, chain_id)
             d1 == SubBE(v64.val, twice.val)
             d2 == SubBE(d1.val, U64Of(8))
             d3 == SubBE(d2.val, U64Of(27))
             v == IF v64.val \in {U64Of(0), U64Of(1)} THEN v64
                  ELSE IF v64.val \in {U64Of(27), U64Of(28)}
                  THEN Ok(SubBE(v64.val, U64Of(27)).val)
                  ELSE Arith(<<twice, d1, d2, d3>>, checks)
         IN  IF ~IsOk(v64) THEN v64
             ELSE IF ~IsOk(v) THEN v
             ELSE Ok([v |-> v.val[U64_BYTES], r |-> t.r, s |-> t.s])
    ELSE LET v32 == as_u32(t.v)
         IN  IF ~IsOk(v32) THEN v32
             ELSE Ok([v |-> v32.val[4], r |-> t.r, s |-> t.s])

\* the bytes TransactionInner::sign hands to the secp256k1 service
SignedTxnBytes(t, chain_id) ==
    IF t.ty = 0
    THEN to_bytes([t EXCEPT !.v = U256FromU64(chain_id),
                            !.r = Zeros(U256_BYTES), !.s = Zeros(U256_BYTES)])
    ELSE LET b == to_bytes([t EXCEPT !.v = Zeros(U256_BYTES),
                                     !.r = Zeros(U256_BYTES),
                                     !.s = Zeros(U256_BYTES)])
         IN  SubSeq([b EXCEPT ![2] = (256 + b[2] - 3) % 256], 1, Len(b) - 3)

\* the v that sign stores for a Legacy transaction
LegacyV(v_raw, chain_id, checks) ==
    LET twice == AddBE(chain_id, chain_id)
        a1 == AddBE(U64Of(v_raw), twice.val)
        a2 == AddBE(a1.val, U64Of(35))
    IN  Arith(<<twice, a1, a2>>, checks)

\* TransactionInner::sign: the transaction after the call, or the abort
sign(t, k, chain_id, checks) ==
    LET sig == secp256k1_rec_sign_bytes(k, SignedTxnBytes(t, chain_id))
        v == IF t.ty = 0 THEN LegacyV(sig.v, chain_id, checks)
             ELSE Ok(U64Of(sig.v))
    IN  IF ~IsOk(v) THEN v
        ELSE Ok([t EXCEPT !.v = U256FromU64(v.val), !.r = sig.r, !.s = sig.s])

\* Signer::sign
Signer_sign(signer_chain_id, t, k, checks) ==
    LET c == as_u64(signer_chain_id)
    IN  IF ~IsOk(c) THEN c ELSE sign(t, k, c.val, checks)

\* Signer::sender
Signer_sender(signer_chain_id, t, checks) ==
    LET c == as_u64(signer_chain_id)
        sig == signature(t, c.val, checks)
        m == msg(signer_chain_id, t)
    IN  IF ~IsOk(c) THEN c
        ELSE IF ~IsOk(sig) THEN sig
        ELSE IF t.ty \in {1, 2} /\ t.chain_id # signer_chain_id
        THEN Panic("chain id not match")
        ELSE IF ~IsOk(m) THEN m
        ELSE Ok(eth_accountid(secp256k1_recover_pubkey(sig.val, m.val)))

-----------------------------------------------------------------------------
(* The signer specification: sign one transaction, then recover its sender *)

\* 2^63 - 18, the chain id for which 1 + 2 * chain_id + 35 is 2^64
ChainEdge == PadLeft(<<127, 255, 255, 255, 255, 255, 255, 238>>, U256_BYTES)
\* 2^64, the least chain id that does not fit 64 bits
ChainWide == PadLeft(<<1, 0, 0, 0, 0, 0, 0, 0, 0>>, U256_BYTES)

ChainIds == {U256Of(1), U256Of(5), ChainEdge, ChainWide}
TxChainIds == {U256Of(1), U256Of(5)}

SignerTxs ==
    {[ty |-> 0, nonce |-> U64Of(0), gas_price |-> U256Of(1000000000),
      gas |-> U64Of(21000), to |-> to, value |-> U256Of(0), data |-> <<>>,
      v |-> U256Of(27), r |-> Zeros(U256_BYTES), s |-> Zeros(U256_BYTES)] :
        to \in ToValues}
    \cup
    {[ty |-> 1, chain_id |-> c, nonce |-> U64Of(0),
      gas_price |-> U256Of(1000000000), gas |-> U64Of(21000),
      to |-> Some(AddrA), value |-> U256Of(0), data |-> <<>>,
      access_list |-> al, v |-> Zeros(U256_BYTES), r |-> Zeros(U256_BYTES),
      s |-> Zeros(U256_BYTES)] : c \in TxChainIds, al \in AccessLists}
    \cup
    {[ty |-> 2, chain_id |-> c, nonce |-> U64Of(0),
      max_priority_fee_per_gas |-> U256Of(2),
      max_fee_per_gas |-> U256Of(1000000000), gas |-> U64Of(21000),
      to |-> Some(AddrA), value |-> U256Of(0), data |-> <<>>,
      access_list |-> al, v |-> Zeros(U256_BYTES), r |-> Zeros(U256_BYTES),
      s |-> Zeros(U256_BYTES)] : c \in TxChainIds, al \in AccessLists}

NoSig == [v |-> 0, r |-> Zeros(U256_BYTES), s |-> Zeros(U256_BYTES)]

SignerInit ==
    /\ stx \in SignerTxs
    /\ prvkey \in Keys
    /\ sign_chain \in ChainIds
    /\ overflow_checks \in BOOLEAN
    /\ signed_bytes = <<>>
    /\ rec_sig = NoSig
    /\ sign_out = NotRun
    /\ recover_chain = Zeros(U256_BYTES)
    /\ sender_out = NotRun

\* Signer{chain_id: sign_chain}.sign(&mut stx, &prvkey)
Sign ==
    /\ sign_out = NotRun
    /\ LET c == as_u64(sign_chain)
           out == Signer_sign(sign_chain, stx, prvkey, overflow_checks)
           cleared == [stx EXCEPT
                          !.v = IF stx.ty = 0 THEN U256FromU64(c.val)
                                ELSE Zeros(U256_BYTES),
                          !.r = Zeros(U256_BYTES), !.s = Zeros(U256_BYTES)]
       IN  /\ sign_out' = IF IsOk(out) THEN Ok("signed") ELSE out
           /\ stx' = IF IsOk(out) THEN out.val
                     ELSE IF IsOk(c) THEN cleared ELSE stx
           /\ signed_bytes' = IF IsOk(c) THEN SignedTxnBytes(stx, c.val)
                              ELSE <<>>
           /\ rec_sig' = IF IsOk(c)
                         THEN secp256k1_rec_sign_bytes(
                                  prvkey, SignedTxnBytes(stx, c.val))
                         ELSE NoSig
    \* sender_out describes the transaction as it now is
    /\ sender_out' = NotRun
    /\ UNCHANGED <<prvkey, sign_chain, overflow_checks, recover_chain>>

\* Signer{chain_id: y}.sender(&stx)
Sender ==
    /\ sign_out.kind # "Panic"
    /\ \E y \in ChainIds :
          /\ recover_chain' = y
          /\ sender_out' = Signer_sender(y, stx, overflow_checks)
    /\ UNCHANGED <<stx, prvkey, sign_chain, overflow_checks, signed_bytes,
                   rec_sig, sign_out>>

-----------------------------------------------------------------------------
(* Properties of the signer                                                *)

SenderRan == sender_out.kind # "NotRun"

\* C5: a Legacy transaction signed by Signer{chain_id: X} with key k is
\* recovered by Signer{chain_id: X}.sender as the address of k, for every
\* chain id X.
C5_LegacySignThenSender ==
    (stx.ty = 0 /\ sign_out.kind = "Ok" /\ SenderRan
        /\ recover_chain = sign_chain)
    => sender_out = Ok(AddressOf(prvkey))

\* C6: sender on a typed transaction whose chain_id differs from the
\* signer's reports the mismatch as an error value and does not abort.
C6_MismatchIsError ==
    (SenderRan /\ stx.ty \in {1, 2} /\ stx.chain_id # recover_chain)
    => sender_out.kind = "Err"

\* C21: the bytes that sign hands to the secp256k1 signer are
\* Signer{chain_id: X}.msg of the resulting signed transaction, for every
\* variant, chain id and payload size, AccessList and DynamicFee
\* transactions with a list payload longer than 55 bytes included.
C21_SignedMessage ==
    sign_out.kind = "Ok" => msg(sign_chain, stx) = Ok(signed_bytes)

\* v_raw + 2 * chain_id + 35 in unbounded arithmetic, as a 256-bit value
ProtectedV(v_raw, chain_id) ==
    AddBE(AddBE(chain_id, chain_id).val, U256Of(v_raw + 35)).val

\* C22: sign stores v = v_raw + 2 * chain_id + 35 for Legacy and v = v_raw
\* for typed transactions, and signature(chain_id) of the signed transaction
\* returns the v_raw of the signer, for every 64-bit chain id, without
\* wrap-around.
C22_RecoveryId ==
    (sign_out # NotRun /\ IsOk(as_u64(sign_chain))) =>
        /\ sign_out.kind = "Ok"
        /\ stx.v = IF stx.ty = 0 THEN ProtectedV(rec_sig.v, sign_chain)
                   ELSE U256Of(rec_sig.v)
        /\ signature(stx, as_u64(sign_chain).val, overflow_checks)
              = Ok([v |-> rec_sig.v, r |-> rec_sig.r, s |-> rec_sig.s])

\* C23: sender under a chain id Y other than the one signed with completes
\* with an address other than the signer's for a Legacy transaction, for
\* every Y, and raises the chain id mismatch for a typed transaction whose
\* embedded chain id is not Y; nothing else happens.
C23_WrongChain ==
    /\ (sign_out.kind = "Ok" /\ SenderRan /\ stx.ty = 0
            /\ recover_chain # sign_chain) =>
          /\ sender_out.kind = "Ok"
          /\ sender_out.val # AddressOf(prvkey)
    /\ (sign_out.kind = "Ok" /\ SenderRan /\ stx.ty \in {1, 2}
            /\ recover_chain # stx.chain_id) =>
          sender_out = Panic("chain id not match")

-----------------------------------------------------------------------------
(* Bloom (block.rs)                                                        *)

BLOOM_BYTE_LENGTH == 256

\* b | v for a mask v of one bit
BitOr(b, v) == IF (b \div v) % 2 = 1 THEN b ELSE b + v

\* Keccak::v256 of the data, squeezed into the 6-byte buffer
HashBuf(data) == SubSeq(keccak_hash(data), 1, 6)

\* variant: the mask is selected by the high byte of the pair
BloomPair_HighSelector(hi, lo) ==
    [i |-> BLOOM_BYTE_LENGTH - (((hi * 256 + lo) % 2048) \div 8) - 1,
     v |-> 2 ^ (hi % 8)]

\* the byte index and the mask taken from two bytes of the digest:
\* BLOOM_BYTE_LENGTH - ((u16 & 0x7ff) >> 3) - 1 and 1 << (low byte & 0x7)
BloomPair(hi, lo) ==
    [i |-> BLOOM_BYTE_LENGTH - (((hi * 256 + lo) % 2048) \div 8) - 1,
     v |-> 2 ^ (lo % 8)]

BloomPairs(h) ==
    <<BloomPair(h[1], h[2]), BloomPair(h[3], h[4]), BloomPair(h[5], h[6])>>

\* Bloom::bloom_values
bloom_values(data) == BloomPairs(HashBuf(data))

\* variant: the byte is overwritten with the mask
OrAt_Assign(bin, p) == [bin EXCEPT ![p.i + 1] = p.v]

\* self.0[i] |= v
OrAt(bin, p) == [bin EXCEPT ![p.i + 1] = BitOr(@, p.v)]

AddPairs(bin, ps) == OrAt(OrAt(OrAt(bin, ps[1]), ps[2]), ps[3])

\* Bloom::add
Bloom_add(bin, d) == AddPairs(bin, bloom_values(d))

\* Bloom::new
Bloom_new == Zeros(BLOOM_BYTE_LENGTH)

\* the items create_bloom adds, in its order: per receipt, per log, the
\* address and then the topics
LogItems(log) == <<log.address>> \o log.topics

RECURSIVE LogsItems(_)
LogsItems(logs) ==
    IF logs = <<>> THEN <<>>
    ELSE LogItems(Head(logs)) \o LogsItems(Tail(logs))

RECURSIVE ReceiptsItems(_)
ReceiptsItems(receipts) ==
    IF receipts = <<>> THEN <<>>
    ELSE LogsItems(Head(receipts).logs) \o ReceiptsItems(Tail(receipts))

RECURSIVE AddAll(_, _)
AddAll(bin, items) ==
    IF items = <<>> THEN bin
    ELSE AddAll(Bloom_add(bin, Head(items)), Tail(items))

\* create_bloom
create_bloom(receipts) == AddAll(Bloom_new, ReceiptsItems(receipts))

-----------------------------------------------------------------------------
(* Receipts (receipt.rs)                                                   *)

\* Receipt::status_encoding
status_encoding(r) ==
    IF r.root # None THEN r.root[1]
    ELSE IF r.status = U64Of(0) THEN <<>> ELSE <<1>>

\* Receipt::rlp_encode: the ReceiptRLP struct
rlp_encode(r) ==
    [post_state_or_status |-> status_encoding(r),
     cumulative_gas_used |-> r.cumulative_gas_used,
     bloom |-> r.logs_bloom,
     logs |-> r.logs]

\* variant: the position of the log in the block is encoded as well
EncodeLog_WithIndex(log) ==
    EncodeList(<<EncodeFixed(log.address),
                 EncodeList([i \in 1..Len(log.topics) |->
                                EncodeFixed(log.topics[i])]),
                 EncodeValue(log.data), EncodeUint(log.log_index)>>)

\* impl Encodable for Log: the RlpLog struct of address, topics, data
EncodeLog(log) ==
    EncodeList(<<EncodeFixed(log.address),
                 EncodeList([i \in 1..Len(log.topics) |->
                                EncodeFixed(log.topics[i])]),
                 EncodeValue(log.data)>>)

\* #[derive(RlpEncodable)] struct ReceiptRLP
EncodeReceiptRLP(e) ==
    EncodeList(<<EncodeValue(e.post_state_or_status),
                 EncodeUint(e.cumulative_gas_used),
                 EncodeValue(e.bloom),
                 EncodeList([i \in 1..Len(e.logs) |-> EncodeLog(e.logs[i])])>>)

\* variant: no receipt gets a type byte
ReceiptPrefix_Untyped(ty) == Ok(<<>>)

\* the match on the type tag in rlp_bytes
ReceiptPrefix(ty) ==
    CASE ty = U64Of(0) -> Ok(<<>>)
      [] ty = U64Of(1) -> Ok(<<1>>)
      [] ty = U64Of(2) -> Ok(<<2>>)
      [] OTHER -> Panic("internal error: entered unreachable code")

\* Receipt::rlp_bytes
rlp_bytes(r) ==
    Try(ReceiptPrefix(IF r.ty = None THEN U64Of(0) ELSE r.ty[1]),
        LAMBDA prefix : Ok(prefix \o EncodeReceiptRLP(rlp_encode(r))))

-----------------------------------------------------------------------------
(* Block headers and withdrawals (block.rs)                                *)

\* variant: the nonce is encoded as an integer, without leading zeros
EncodeBlockNonce_Stripped(n) == EncodeUint(n)

\* impl Encodable for BlockNonce: the 8 big-endian bytes as a string
EncodeBlockNonce(n) == EncodeValue(n)

\* #[derive(RlpEncodable)] struct BlockHeader
EncodeHeader(h) ==
    EncodeList(<<EncodeFixed(h.parent_hash), EncodeFixed(h.sha3_uncles),
                 EncodeFixed(h.miner), EncodeFixed(h.state_root),
                 EncodeFixed(h.transactions_root),
                 EncodeFixed(h.receipts_root), EncodeValue(h.logs_bloom),
                 EncodeUint(h.difficulty), EncodeUint(h.number),
                 EncodeUint(h.gas_limit), EncodeUint(h.gas_used),
                 EncodeUint(h.timestamp), EncodeValue(h.extra_data),
                 EncodeFixed(h.mix_hash), EncodeBlockNonce(h.nonce),
                 EncodeUint(h.base_fee_per_gas),
                 EncodeNilable(h.withdrawals_root)>>)

\* BlockHeader::hash
BlockHeader_hash(h) == keccak_hash(EncodeHeader(h))

\* impl Encodable for Withdrawal
EncodeWithdrawal(w) ==
    EncodeList(<<EncodeUint(w.index), EncodeUint(w.validator_index),
                 EncodeValue(w.address), EncodeUint(w.amount)>>)

\* 0x56e81f171bcc55a6ff8345e692c0f86e5b48e01b996cadc001622fb5e363b421
EMPTY_ROOT ==
    <<86, 232, 31, 23, 27, 204, 85, 166, 255, 131, 69, 230, 146, 192, 248,
      110, 91, 72, 224, 27, 153, 108, 173, 192, 1, 98, 47, 181, 227, 99,
      180, 33>>

\* 0x1dcc4de8dec75d7aab85b567b6ccd41ad312451b948a7413f0a142fd40d49347
EMPTY_UNCLES ==
    <<29, 204, 77, 232, 222, 199, 93, 122, 171, 133, 181, 103, 182, 204,
      212, 26, 211, 18, 69, 27, 148, 138, 116, 19, 240, 161, 66, 253, 64,
      212, 147, 71>>

\* triehash::ordered_trie_root, an external collaborator: a deterministic
\* stand-in that depends on every item and on the order of the items
ordered_trie_root(items) ==
    IF items = <<>> THEN EMPTY_ROOT
    ELSE keccak_hash(EncodeList([i \in 1..Len(items) |->
                                    EncodeValue(items[i])]))

\* withdrawal_root
withdrawal_root(withdrawals) ==
    IF Len(withdrawals) = 0 THEN EMPTY_ROOT
    ELSE ordered_trie_root([i \in 1..Len(withdrawals) |->
                               EncodeWithdrawal(withdrawals[i])])

-----------------------------------------------------------------------------
(* The projection of a transaction (tx.rs)                                 *)

\* Transaction::default()
DefaultTransaction ==
    [block_hash |-> None, block_number |-> None, from |-> None,
     gas |-> U64Of(0), gas_price |-> None, max_fee_per_gas |-> None,
     max_priority_fee_per_gas |-> None, hash |-> Zeros(H256_BYTES),
     input |-> <<>>, nonce |-> U64Of(0), to |-> None,
     transaction_index |-> None, value |-> U256Of(0), type |-> U64Of(0),
     access_list |-> None, chain_id |-> None, v |-> U256Of(0),
     r |-> U256Of(0), s |-> U256Of(0)]

\* a < b for big-endian values of one width
LessBE(a, b) ==
    \E i \in 1..Len(a) : a[i] < b[i] /\ \A j \in 1..(i - 1) : a[j] = b[j]

\* Ord::min
MinBE(a, b) == IF LessBE(b, a) THEN b ELSE a

\* U256 + U256: an overflow aborts in every build
CheckedSum(sum) ==
    IF sum.overflow THEN Panic("arithmetic operation overflow")
    ELSE Ok(sum.val)
U256Add(a, b) == CheckedSum(AddBE(a, b))

\* variant: the header is ignored
DynamicFeePrice_NoHeader(t, header) == Ok(t.max_fee_per_gas)

\* the gas_price of a projected DynamicFee transaction
DynamicFeePrice(t, header) ==
    IF header = None THEN Ok(t.max_fee_per_gas)
    ELSE Try(U256Add(header[1].base_fee_per_gas, t.max_priority_fee_per_gas),
             LAMBDA sum : Ok(MinBE(t.max_fee_per_gas, sum)))

\* the match on the variant in to_transaction
LegacyTarget(t) ==
    [DefaultTransaction EXCEPT
        !.hash = hash(t), !.type = U64Of(0), !.nonce = t.nonce,
        !.gas_price = Some(t.gas_price), !.gas = t.gas, !.to = t.to,
        !.value = t.value, !.input = t.data, !.v = t.v, !.r = t.r,
        !.s = t.s]

AccessListTarget(t) ==
    [DefaultTransaction EXCEPT
        !.hash = hash(t), !.type = U64Of(1), !.chain_id = Some(t.chain_id),
        !.nonce = t.nonce, !.gas_price = Some(t.gas_price), !.gas = t.gas,
        !.to = t.to, !.value = t.value, !.input = t.data,
        !.access_list = Some(t.access_list), !.v = t.v, !.r = t.r,
        !.s = t.s]

DynamicFeeTarget(t, price) ==
    [DefaultTransaction EXCEPT
        !.hash = hash(t), !.type = U64Of(2), !.chain_id = Some(t.chain_id),
        !.nonce = t.nonce,
        !.max_priority_fee_per_gas = Some(t.max_priority_fee_per_gas),
        !.max_fee_per_gas = Some(t.max_fee_per_gas), !.gas = t.gas,
        !.gas_price = Some(price), !.to = t.to, !.value = t.value,
        !.input = t.data, !.access_list = Some(t.access_list), !.v = t.v,
        !.r = t.r, !.s = t.s]

\* if let Some(header) = header { block_hash, block_number }
WithHeader(target, header) ==
    IF header = None THEN target
    ELSE [target EXCEPT !.block_hash = Some(BlockHeader_hash(header[1])),
                        !.block_number = Some(header[1].number)]

\* TransactionInner::to_transaction
to_transaction(t, header) ==
    CASE t.ty = 0 -> Ok(WithHeader(LegacyTarget(t), header))
      [] t.ty = 1 -> Ok(WithHeader(AccessListTarget(t), header))
      [] t.ty = 2 ->
           Try(DynamicFeePrice(t, header),
               LAMBDA price : Ok(WithHeader(DynamicFeeTarget(t, price),
                                            header)))

-----------------------------------------------------------------------------
(* Block::new (block.rs).  The header under construction is carried with   *)
(* the number of ordered_trie_root calls made so far.                      *)

\* the outcome of Block::new with the trie calls made before it ended
Abort(r, n) == [kind |-> r.kind, msg |-> r.msg, trie_calls |-> n]
Done(block, n) == [kind |-> "Ok", val |-> block, trie_calls |-> n]
TryAt(r, K(_), n) == IF IsOk(r) THEN K(r.val) ELSE Abort(r, n)

\* if txs.len() == 0 { empty root } else { trie root of tx.to_bytes() }
SetTransactionsRoot(st, txs) ==
    IF Len(txs) = 0
    THEN [st EXCEPT !.header.transactions_root = EMPTY_ROOT]
    ELSE [st EXCEPT
             !.header.transactions_root =
                 ordered_trie_root([i \in 1..Len(txs) |-> to_bytes(txs[i])]),
             !.trie_calls = @ + 1]

\* if receipts.len() == 0 { empty root } else { bloom and trie root }
SetReceiptsRoot(st, receipts) ==
    IF Len(receipts) = 0
    THEN Ok([st EXCEPT !.header.receipts_root = EMPTY_ROOT])
    ELSE Try(Collect(MapItems(receipts, rlp_bytes)),
             LAMBDA rs :
                 Ok([st EXCEPT
                        !.header.logs_bloom = create_bloom(receipts),
                        !.header.receipts_root = ordered_trie_root(rs),
                        !.trie_calls = @ + 1]))

\* header.sha3_uncles = the hash of the empty list
SetSha3Uncles(st) == [st EXCEPT !.header.sha3_uncles = EMPTY_UNCLES]

\* txs.iter().map(|tx| tx.to_transaction(Some(&header))).collect()
ProjectAll(txs, header) ==
    Collect([i \in 1..Len(txs) |-> to_transaction(txs[i], Some(header))])

\* variant: the withdrawals root of the input header is kept
SetWithdrawalsRoot_Keep(st, withdrawals) == st

\* if let Some(withdrawals) = &withdrawals { header.withdrawals_root = .. }
SetWithdrawalsRoot(st, withdrawals) ==
    IF withdrawals = None THEN st
    ELSE [st EXCEPT
             !.header.withdrawals_root =
                 Some(withdrawal_root(withdrawals[1])),
             !.trie_calls = IF Len(withdrawals[1]) = 0 THEN @ ELSE @ + 1]

\* Block { header, transactions, withdrawals }
BlockOf(st, transactions, withdrawals) ==
    Done([header |-> st.header, transactions |-> transactions,
          withdrawals |-> withdrawals], st.trie_calls)

\* from the projection of the transactions to the end
ProjectAndFinish(st, txs, withdrawals) ==
    TryAt(ProjectAll(txs, st.header),
          LAMBDA transactions :
              BlockOf(SetWithdrawalsRoot(st, withdrawals), transactions,
                      withdrawals),
          st.trie_calls)

\* from the receipts to the end
AssembleFrom(st, txs, receipts, withdrawals) ==
    TryAt(SetReceiptsRoot(st, receipts),
          LAMBDA st2 : ProjectAndFinish(SetSha3Uncles(st2), txs, withdrawals),
          st.trie_calls)

\* variant: the lengths of txs and receipts are not compared
Block_new_NoAssert(header, txs, receipts, withdrawals) ==
    AssembleFrom(SetTransactionsRoot([header |-> header, trie_calls |-> 0],
                                     txs),
                 txs, receipts, withdrawals)

\* Block::new
Block_new(header, txs, receipts, withdrawals) ==
    IF Len(txs) # Len(receipts)
    THEN Abort(Panic("assertion failed: left == right"), 0)
    ELSE AssembleFrom(
             SetTransactionsRoot([header |-> header, trie_calls |-> 0], txs),
             txs, receipts, withdrawals)

-----------------------------------------------------------------------------
(* Inputs of the bloom and block specifications                            *)

MaxReceipts == 2      \* receipts handed to create_bloom
MaxBlockTxs == 2      \* transactions, and receipts, handed to Block::new
MaxWithdrawals == 1   \* withdrawals handed to Block::new

\* Addr1, Topic0 and Topic46 meet in one byte of the bloom with different bits
Addr1 == [i \in 1..H160_BYTES |-> 1]
Topic0 == Zeros(H256_BYTES)
Topic46 == [i \in 1..H256_BYTES |-> 46]
BloomItems == {Addr1, Topic0, Topic46, AddrA, KeyA}

LogA == [address |-> Addr1, topics |-> <<Topic0, Topic46>>, data |-> <<1, 2>>]
LogB == [address |-> AddrA, topics |-> <<>>, data |-> <<>>]

ReceiptPlain ==
    [ty |-> None, root |-> None, status |-> U64Of(1),
     cumulative_gas_used |-> U64Of(21000),
     logs_bloom |-> Zeros(BLOOM_BYTE_LENGTH), logs |-> <<>>]
ReceiptLogs ==
    [ty |-> Some(U64Of(2)), root |-> None, status |-> U64Of(0),
     cumulative_gas_used |-> U64Of(42000),
     logs_bloom |-> Zeros(BLOOM_BYTE_LENGTH), logs |-> <<LogA>>]
ReceiptRoot ==
    [ty |-> Some(U64Of(1)), root |-> Some(KeyA), status |-> U64Of(1),
     cumulative_gas_used |-> U64Of(63000),
     logs_bloom |-> Zeros(BLOOM_BYTE_LENGTH), logs |-> <<LogB, LogA>>]
Receipts == {ReceiptPlain, ReceiptLogs, ReceiptRoot}

JunkHash == [i \in 1..H256_BYTES |-> 238]

HeaderPlain ==
    [parent_hash |-> KeyA, sha3_uncles |-> Zeros(H256_BYTES),
     miner |-> AddrA, state_root |-> KeyA,
     transactions_root |-> Zeros(H256_BYTES),
     receipts_root |-> Zeros(H256_BYTES),
     logs_bloom |-> Zeros(BLOOM_BYTE_LENGTH), difficulty |-> U256Of(0),
     number |-> U64Of(5), gas_limit |-> U64Of(30000000),
     gas_used |-> U64Of(21000), timestamp |-> U64Of(1700000000),
     extra_data |-> <<>>, mix_hash |-> Zeros(H256_BYTES),
     nonce |-> Zeros(U64_BYTES), base_fee_per_gas |-> U256Of(7),
     withdrawals_root |-> None]
\* a header that carries values in the fields Block::new derives
HeaderStale ==
    [HeaderPlain EXCEPT
        !.sha3_uncles = JunkHash, !.transactions_root = JunkHash,
        !.receipts_root = JunkHash,
        !.logs_bloom = [i \in 1..BLOOM_BYTE_LENGTH |-> 255],
        !.withdrawals_root = Some(JunkHash)]
\* a header whose base fee leaves no room for a tip
HeaderMaxFee == [HeaderPlain EXCEPT !.base_fee_per_gas = BigValue]
BlockHeaders == {HeaderPlain, HeaderStale, HeaderMaxFee}

BlockTxLegacy ==
    [ty |-> 0, nonce |-> U64Of(0), gas_price |-> U256Of(1000000000),
     gas |-> U64Of(21000), to |-> Some(AddrA), value |-> U256Of(0),
     data |-> <<>>, v |-> U256Of(37), r |-> SigR, s |-> SigS]
BlockTxDynamicFee ==
    [ty |-> 2, chain_id |-> U256Of(1), nonce |-> U64Of(1),
     max_priority_fee_per_gas |-> U256Of(2),
     max_fee_per_gas |-> U256Of(1000000000), gas |-> U64Of(21000),
     to |-> None, value |-> U256Of(0), data |-> <<128>>,
     access_list |-> <<>>, v |-> U256Of(1), r |-> SigR, s |-> SigS]
BlockTxs == {BlockTxLegacy, BlockTxDynamicFee}

Withdrawal1 ==
    [index |-> U64Of(0), validator_index |-> U64Of(9), address |-> AddrA,
     amount |-> U64Of(1)]
WithdrawalValues ==
    {None} \cup {Some(w) : w \in SeqsUpTo({Withdrawal1}, MaxWithdrawals)}

-----------------------------------------------------------------------------
(* The bloom specification: add items to one Bloom, build one from receipts *)

BloomInit ==
    /\ bloom = Bloom_new
    /\ added = {}
    /\ built = NotRun
    /\ built_from = <<>>

\* bloom.add(d, &mut buf)
BloomAdd ==
    /\ \E d \in BloomItems :
          /\ bloom' = Bloom_add(bloom, d)
          /\ added' = added \cup {d}
    /\ UNCHANGED <<built, built_from>>

\* built := create_bloom(receipts.iter())
CreateBloom ==
    /\ \E rs \in SeqsUpTo(Receipts, MaxReceipts) :
          /\ built' = Ok(create_bloom(rs))
          /\ built_from' = rs
    /\ UNCHANGED <<bloom, added>>

-----------------------------------------------------------------------------
(* The block specification: one call of Block::new                         *)

BlockInit ==
    /\ hdr_in \in BlockHeaders
    /\ txs_in \in SeqsUpTo(BlockTxs, MaxBlockTxs)
    /\ receipts_in \in SeqsUpTo(Receipts, MaxBlockTxs)
    /\ wd_in \in WithdrawalValues
    /\ block_out = NotRun
    /\ trie_calls = 0

\* the outcome as the caller sees it
Outcome(res) ==
    IF IsOk(res) THEN Ok(res.val) ELSE [kind |-> res.kind, msg |-> res.msg]

Returned(res) ==
    /\ block_out' = Outcome(res)
    /\ trie_calls' = res.trie_calls

\* block_out := Block::new(hdr_in, txs_in, &receipts_in, wd_in)
BlockNew ==
    /\ block_out = NotRun
    /\ Returned(Block_new(hdr_in, txs_in, receipts_in, wd_in))
    /\ UNCHANGED <<hdr_in, txs_in, receipts_in, wd_in>>

-----------------------------------------------------------------------------
(* Properties of the block assembler                                       *)

Built == block_out.kind = "Ok"

TxBytes == [i \in 1..Len(txs_in) |-> to_bytes(txs_in[i])]
ReceiptBytes == [i \in 1..Len(receipts_in) |-> rlp_bytes(receipts_in[i]).val]
WithdrawalBytes(w) == [i \in 1..Len(w) |-> EncodeWithdrawal(w[i])]

\* C7: in every returned block, transactions_root is EMPTY_ROOT for no
\* transactions and else the trie root of the to_bytes() of the inputs in
\* input order; receipts_root likewise over rlp_bytes(); and with withdrawals
\* Some(w), withdrawals_root is Some(withdrawal_root(w)), EMPTY_ROOT for
\* an empty w; whatever these fields held in the input header.
C7_RootsDerived ==
    Built =>
        /\ block_out.val.header.transactions_root =
               (IF txs_in = <<>> THEN EMPTY_ROOT
                ELSE ordered_trie_root(TxBytes))
        /\ block_out.val.header.receipts_root =
               (IF receipts_in = <<>> THEN EMPTY_ROOT
                ELSE ordered_trie_root(ReceiptBytes))
        /\ wd_in # None =>
               block_out.val.header.withdrawals_root =
                   Some(IF wd_in[1] = <<>> THEN EMPTY_ROOT
                        ELSE ordered_trie_root(WithdrawalBytes(wd_in[1])))

C7_Witness ==
    /\ Built
    /\ hdr_in = HeaderStale
    /\ Len(txs_in) = 2 /\ txs_in[1] # txs_in[2]
    /\ receipts_in[1] # receipts_in[2]
    /\ wd_in = Some(<<Withdrawal1>>)
    /\ block_out.val.header.transactions_root # JunkHash
    /\ block_out.val.header.withdrawals_root # Some(JunkHash)

\* C8: in every returned block, with withdrawals absent or present, the
\* transactions are the projections of the inputs in input order, and each
\* carries block_hash = Some(hash of the returned header) and
\* block_number = Some(number of the returned header).
C8_BodyMatchesHeader ==
    Built =>
        /\ Len(block_out.val.transactions) = Len(txs_in)
        /\ \A i \in 1..Len(txs_in) :
              /\ block_out.val.transactions[i].hash = hash(txs_in[i])
              /\ block_out.val.transactions[i].block_hash =
                     Some(BlockHeader_hash(block_out.val.header))
              /\ block_out.val.transactions[i].block_number =
                     Some(block_out.val.header.number)

\* C9: with len(txs) # len(receipts) Block::new aborts before any trie root
\* is computed and returns no block; with equal lengths, both empty
\* included, it does not abort on the comparison.
C9_LengthsChecked ==
    block_out.kind # "NotRun" =>
        IF Len(txs_in) # Len(receipts_in)
        THEN block_out.kind = "Panic" /\ trie_calls = 0
        ELSE block_out # Panic("assertion failed: left == right")

C9_Witness ==
    /\ block_out = Panic("assertion failed: left == right")
    /\ Len(txs_in) = 2
    /\ Len(receipts_in) = 1
    /\ trie_calls = 0

\* the addresses and topics of the logs of the receipts handed to Block::new
LogItemSet(log) ==
    {log.address} \cup {log.topics[t] : t \in 1..Len(log.topics)}
ReceiptItemSet(r) == UNION {LogItemSet(r.logs[j]) : j \in 1..Len(r.logs)}
InputItemSet ==
    UNION {ReceiptItemSet(receipts_in[n]) : n \in 1..Len(receipts_in)}

\* the (byte index, mask) pairs that the items of a set select
Selected(items) ==
    {<<bloom_values(d)[k].i, bloom_values(d)[k].v>> : d \in items, k \in 1..3}

\* a bit of the bloom is set exactly when a selected pair names it
BloomOfPairs(bin, pairs) ==
    /\ Len(bin) = BLOOM_BYTE_LENGTH
    /\ \A i \in 0..(BLOOM_BYTE_LENGTH - 1) : \A b \in 0..7 :
          (bin[i + 1] \div (2 ^ b)) % 2 = 1 <=> <<i, 2 ^ b>> \in pairs

BloomOfItems(bin, items) ==
    \E pairs \in {Selected(items)} : BloomOfPairs(bin, pairs)

\* C25: in every block returned by Block::new, header.logs_bloom is
\* create_bloom(receipts): the zero bloom with the bits of the address and of
\* every topic of every log of every receipt and no other bit, for every
\* receipts list, the empty one included, whatever logs_bloom the input
\* header carried.
C25_LogsBloom ==
    Built =>
        /\ block_out.val.header.logs_bloom = create_bloom(receipts_in)
        /\ BloomOfItems(block_out.val.header.logs_bloom, InputItemSet)

\* C28: Block::new sets sha3_uncles to the empty-list hash, recomputes
\* transactions_root, receipts_root, logs_bloom and withdrawals_root, and
\* leaves every other header field as in the input header; the returned
\* withdrawals are the input withdrawals, and with withdrawals None the
\* returned header.withdrawals_root is None.
C28_Frame ==
    Built =>
        /\ block_out.val.header.sha3_uncles = EMPTY_UNCLES
        /\ \A f \in {"parent_hash", "miner", "state_root", "difficulty",
                      "number", "gas_limit", "gas_used", "timestamp",
                      "extra_data", "mix_hash", "nonce", "base_fee_per_gas"} :
              block_out.val.header[f] = hdr_in[f]
        /\ block_out.val.withdrawals = wd_in
        /\ wd_in = None => block_out.val.header.withdrawals_root = None

-----------------------------------------------------------------------------
(* Properties of the bloom                                                 *)

\* the k-th bit of a byte
Bit(b, k) == (b \div (2 ^ k)) % 2 = 1

\* the membership check: the three bits of the item are set
Present(bin, d) ==
    \A k \in 1..3 :
        (bin[bloom_values(d)[k].i + 1] \div bloom_values(d)[k].v) % 2 = 1

\* no bit of the bloom is cleared by a step
BitsKept ==
    \A i \in 1..BLOOM_BYTE_LENGTH : \A k \in 0..7 :
        Bit(bloom[i], k) => Bit(bloom'[i], k)

AddedPresent ==
    /\ \A d \in added : Present(bloom, d)
    /\ IsOk(built) =>
          \A n \in 1..Len(ReceiptsItems(built_from)) :
              Present(built.val, ReceiptsItems(built_from)[n])

\* C10: from the zero Bloom, no add clears a bit set before, so every item
\* added reads present under the membership check of its three (byte,
\* mask) pairs; and every log address and topic of the receipts handed to
\* create_bloom reads present in its result.
C10_BloomNeverShrinks == [][BitsKept]_vars /\ []AddedPresent

C10_Witness ==
    /\ {Addr1, Topic0, Topic46} \subseteq added
    /\ Bit(bloom[82], 0) /\ Bit(bloom[82], 2) /\ Bit(bloom[82], 6)
    /\ IsOk(built)
    /\ built_from = <<ReceiptRoot, ReceiptLogs>>

\* the byte index 255 - ((pair & 0x7FF) >> 3) of the k-th pair of a digest
\* and the bit 1 << (h[2k - 1] & 7) it selects, bytes of h counted from 0
PairIndex(h, k) == 255 - (((h[2 * k - 1] * 256 + h[2 * k]) % 2048) \div 8)
PairBit(h, k) == h[2 * k] % 8

\* the number of bits set in a byte
Ones(b) == Cardinality({k \in 0..7 : Bit(b, k)})

\* after is before with the three bits of the digest h set and no other
\* change
AddEffect(before, after, h) ==
    /\ \A k \in 1..3 : PairIndex(h, k) \in 0..255
    /\ \A i \in 0..255 : \A b \in 0..7 :
          Bit(after[i + 1], b) <=>
             \/ Bit(before[i + 1], b)
             \/ \E k \in 1..3 : PairIndex(h, k) = i /\ PairBit(h, k) = b
    /\ \A i \in 0..255 :
          (\A k \in 1..3 : PairIndex(h, k) # i) => after[i + 1] = before[i + 1]

\* every pair of digest bytes gives a byte index of the bloom
PairsInRange ==
    \A hi \in 0..255 : \A lo \in 0..255 :
        BloomPair(hi, lo).i \in 0..(BLOOM_BYTE_LENGTH - 1)

\* a step that adds an item has the effect of its digest, and sets at most
\* 3 bits
AddSetsThree ==
    added' # added =>
        \E d \in BloomItems :
            /\ added' = added \cup {d}
            /\ AddEffect(bloom, bloom', keccak_hash(d))
            /\ Cardinality({<<i, b>> \in (1..BLOOM_BYTE_LENGTH) \X (0..7) :
                                Bit(bloom'[i], b) /\ ~Bit(bloom[i], b)}) <= 3

\* C24: Bloom::add(item) takes h = keccak256(item) and ORs the masks
\* 1 << (h[1] & 7), 1 << (h[3] & 7), 1 << (h[5] & 7) into the bytes at index
\* 255 - ((pair & 0x7FF) >> 3) of the pairs h[0:2], h[2:4], h[4:6]; every
\* index lies in 0..=255 for every hash value, an add sets at most 3 bits,
\* and every other byte is unchanged.
C24_BloomAdd == PairsInRange /\ [][AddSetsThree]_vars

C24_Witness ==
    /\ added = {Topic46, AddrA}
    /\ bloom # Bloom_new
    /\ Ones(bloom[82]) >= 1

-----------------------------------------------------------------------------
(* Fees (tx.rs): gas_price, effective_gas_tip, cost                        *)

\* U256 - U256: an underflow aborts in every build
U256Sub(a, b) == CheckedSum(SubBE(a, b))

\* the sum of the products of the byte pairs of a and b of weight 256^k,
\* from the byte of weight 256^i of a on; the low n bytes of a hold its value
RECURSIVE ColumnSum(_, _, _, _, _)
ColumnSum(a, b, n, k, i) ==
    IF i > k \/ i >= n THEN 0
    ELSE (IF k - i < Len(b) THEN a[Len(a) - i] * b[Len(b) - (k - i)] ELSE 0)
         + ColumnSum(a, b, n, k, i + 1)

\* the carry out of the byte of weight 256^k of a * b
RECURSIVE MulCarry(_, _, _, _)
MulCarry(a, b, n, k) ==
    IF k < 0 THEN 0
    ELSE (ColumnSum(a, b, n, k, 0) + MulCarry(a, b, n, k - 1)) \div 256

MulTo(a, b, n) ==
    [val |-> [j \in 1..Len(a) |->
                 (ColumnSum(a, b, n, Len(a) - j, 0)
                    + MulCarry(a, b, n, Len(a) - j - 1)) % 256],
     overflow |-> \/ MulCarry(a, b, n, Len(a) - 1) # 0
                  \/ \E k \in Len(a)..(Len(a) + Len(b) - 2) :
                        ColumnSum(a, b, n, k, 0) # 0]

\* a * b in the width of a, with the overflow of the product
MulBE(a, b) == MulTo(a, b, Len(StripZeros(a)))

\* U256 * U256: an overflow aborts in every build
U256Mul(a, b) == CheckedSum(MulBE(a, b))

\* TransactionInner::gas_price
gas_price(t, base_fee) ==
    CASE t.ty = 0 -> Ok(t.gas_price)
      [] t.ty = 1 -> Ok(t.gas_price)
      [] t.ty = 2 ->
           IF base_fee = None THEN Ok(t.max_fee_per_gas)
           ELSE Try(U256Add(base_fee[1], t.max_priority_fee_per_gas),
                    LAMBDA sum : Ok(MinBE(t.max_fee_per_gas, sum)))

\* TransactionInner::max_fee_per_gas
max_fee_per_gas(t) == IF t.ty = 2 THEN t.max_fee_per_gas ELSE t.gas_price

\* TransactionInner::max_priority_fee_per_gas
max_priority_fee_per_gas(t) ==
    IF t.ty = 2 THEN t.max_priority_fee_per_gas ELSE t.gas_price

\* TransactionInner::gas and TransactionInner::value
gas(t) == t.gas
value(t) == t.value

\* variant: the subtraction is made without the comparison before it
effective_gas_tip_NoGuard(t, base_fee) ==
    IF base_fee = None THEN Ok(Some(max_priority_fee_per_gas(t)))
    ELSE Try(U256Sub(max_fee_per_gas(t), base_fee[1]),
             LAMBDA room : Ok(Some(MinBE(max_priority_fee_per_gas(t), room))))

\* TxTrait::effective_gas_tip
effective_gas_tip(t, base_fee) ==
    IF base_fee = None THEN Ok(Some(max_priority_fee_per_gas(t)))
    ELSE IF LessBE(max_fee_per_gas(t), base_fee[1]) THEN Ok(None)
    ELSE Try(U256Sub(max_fee_per_gas(t), base_fee[1]),
             LAMBDA room : Ok(Some(MinBE(max_priority_fee_per_gas(t), room))))

\* (gas * gas_price) + value
CostOf(t, price) ==
    Try(U256Mul(U256FromU64(gas(t)), price),
        LAMBDA fee : U256Add(fee, value(t)))

\* TransactionInner::cost
cost(t, base_fee) ==
    Try(gas_price(t, base_fee), LAMBDA price : CostOf(t, price))

\* the fee fields of the transactions
FeeValues == {U256Of(0), U256Of(2), U256Of(100), BigValue}
GasValues == {U64Of(21000), [i \in 1..U64_BYTES |-> 255]}
CostValues == {U256Of(1), BigValue}
BaseFees == {U256Of(7), U256Of(100), U256Of(2000000000), BigValue}

FeeTxAccessList ==
    [ty |-> 1, chain_id |-> U256Of(1), nonce |-> U64Of(2),
     gas_price |-> U256Of(1000000000), gas |-> U64Of(21000),
     to |-> Some(AddrA), value |-> U256Of(0), data |-> <<>>,
     access_list |-> <<>>, v |-> U256Of(0), r |-> SigR, s |-> SigS]

FeeTxs ==
    {[t EXCEPT !.gas_price = p, !.gas = g, !.value = w] :
        t \in {BlockTxLegacy, FeeTxAccessList}, p \in FeeValues,
        g \in GasValues, w \in CostValues}
    \cup
    {[BlockTxDynamicFee EXCEPT !.max_fee_per_gas = p,
                               !.max_priority_fee_per_gas = q,
                               !.gas = g, !.value = w] :
        p \in FeeValues, q \in FeeValues, g \in GasValues, w \in CostValues}

\* the header to_transaction is given: none, or one with the base fee
FeeHeader(base_fee) ==
    IF base_fee = None THEN None
    ELSE Some([HeaderPlain EXCEPT !.base_fee_per_gas = base_fee[1]])

-----------------------------------------------------------------------------
(* The fee specification: the fee accessors and the projection of one      *)
(* transaction under one base fee                                          *)

FeeInit ==
    /\ fee_tx \in FeeTxs
    /\ fee_base \in {None} \cup {Some(b) : b \in BaseFees}
    /\ price_out = NotRun
    /\ tip_out = NotRun
    /\ cost_out = NotRun
    /\ proj_out = NotRun

\* price_out := fee_tx.gas_price(fee_base)
GasPrice ==
    /\ price_out = NotRun
    /\ price_out' = gas_price(fee_tx, fee_base)
    /\ UNCHANGED <<fee_tx, fee_base, tip_out, cost_out, proj_out>>

\* tip_out := fee_tx.effective_gas_tip(fee_base)
EffectiveGasTip ==
    /\ tip_out = NotRun
    /\ tip_out' = effective_gas_tip(fee_tx, fee_base)
    /\ UNCHANGED <<fee_tx, fee_base, price_out, cost_out, proj_out>>

\* cost_out := fee_tx.cost(fee_base)
Cost ==
    /\ cost_out = NotRun
    /\ cost_out' = cost(fee_tx, fee_base)
    /\ UNCHANGED <<fee_tx, fee_base, price_out, tip_out, proj_out>>

\* proj_out := fee_tx.to_transaction(header)
ToTransaction ==
    /\ proj_out = NotRun
    /\ proj_out' = to_transaction(fee_tx, FeeHeader(fee_base))
    /\ UNCHANGED <<fee_tx, fee_base, price_out, tip_out, cost_out>>

-----------------------------------------------------------------------------
(* Properties of the fees                                                  *)

\* the fee cap and the tip cap as the claims name them: the two fields of a
\* DynamicFee transaction, the flat gas_price of the other variants
FeeCap == IF fee_tx.ty = 2 THEN fee_tx.max_fee_per_gas ELSE fee_tx.gas_price
TipCap ==
    IF fee_tx.ty = 2 THEN fee_tx.max_priority_fee_per_gas
    ELSE fee_tx.gas_price

\* min(cap, sum) for a sum that may exceed 256 bits
MinWith(cap, sum) == IF sum.overflow THEN cap ELSE MinBE(cap, sum.val)

\* C11: gas_price(base_fee) returns the gas_price field for Legacy and
\* AccessList whatever the base fee; for DynamicFee it returns
\* max_fee_per_gas without a base fee and min(max_fee_per_gas, base_fee +
\* max_priority_fee_per_gas) with one, for every 256-bit value of the three.
C11_GasPrice ==
    price_out # NotRun =>
        price_out =
            Ok(IF fee_tx.ty # 2 THEN fee_tx.gas_price
               ELSE IF fee_base = None THEN fee_tx.max_fee_per_gas
               ELSE MinWith(fee_tx.max_fee_per_gas,
                            AddBE(fee_base[1],
                                  fee_tx.max_priority_fee_per_gas)))

\* the tip as C12 states it, for a base fee b
TipFor(b) ==
    IF LessBE(FeeCap, b) THEN None
    ELSE Some(MinBE(TipCap, SubBE(FeeCap, b).val))

\* a tip t fits: it is at most the tip cap, and b + t is at most the fee cap
TipFits(t, b) ==
    /\ ~LessBE(TipCap, t)
    /\ ~AddBE(b, t).overflow
    /\ ~LessBE(FeeCap, AddBE(b, t).val)

\* C12: effective_gas_tip(base_fee) returns Some(max_priority_fee_per_gas)
\* without a base fee; with a base fee b it returns None exactly when
\* max_fee_per_gas < b and Some(min(max_priority_fee_per_gas,
\* max_fee_per_gas - b)) otherwise, and it never aborts on the subtraction.
C12_EffectiveGasTip ==
    tip_out # NotRun =>
        /\ tip_out.kind = "Ok"
        /\ fee_base = None => tip_out.val = Some(TipCap)
        /\ fee_base # None =>
              /\ tip_out.val = TipFor(fee_base[1])
              /\ (tip_out.val = None) <=> LessBE(FeeCap, fee_base[1])
              /\ tip_out.val # None => TipFits(tip_out.val[1], fee_base[1])

C12_Witness ==
    /\ fee_tx.ty = 2
    /\ fee_tx.max_fee_per_gas = U256Of(100)
    /\ fee_tx.max_priority_fee_per_gas = U256Of(2)
    /\ fee_base = Some(U256Of(100))
    /\ tip_out = Ok(Some(U256Of(0)))

\* C13: cost(base_fee) returns gas * gas_price(base_fee) + value, the gas
\* widened to 256 bits, for all field values of the transaction.
C13_Cost ==
    cost_out # NotRun =>
        /\ cost_out.kind = "Ok"
        /\ cost_out.val =
              AddBE(MulBE(U256FromU64(fee_tx.gas),
                          gas_price(fee_tx, fee_base).val).val,
                    fee_tx.value).val

C29_Decomposition ==
    (fee_base # None /\ price_out # NotRun /\ tip_out # NotRun) =>
        IF ~LessBE(max_fee_per_gas(fee_tx), fee_base[1])
        THEN /\ price_out.kind = "Ok"
             /\ tip_out.kind = "Ok"
             /\ tip_out.val # None
             /\ ~AddBE(fee_base[1], tip_out.val[1]).overflow
             /\ price_out.val = AddBE(fee_base[1], tip_out.val[1]).val
             /\ ~LessBE(max_fee_per_gas(fee_tx), price_out.val)
        ELSE /\ tip_out = Ok(None)
             /\ price_out = Ok(max_fee_per_gas(fee_tx))

-----------------------------------------------------------------------------
(* The message specification: sign_msg of one transaction whose signature  *)
(* fields are rewritten between calls                                      *)

\* the values the v field takes: unprotected, protected, wider than 64 bits
LegacyVs ==
    {U256Of(0), U256Of(1), U256Of(27), U256Of(28), U256Of(37), U256Of(45),
     ChainWide}
TypedVs == {U256Of(0), U256Of(1), U256Of(27)}
Stamps == {<<Zeros(U256_BYTES), Zeros(U256_BYTES)>>, <<SigR, SigS>>}

MsgInit ==
    /\ msg_tx \in SignerTxs
    /\ msg_chain \in ChainIds
    /\ msg_out = NotRun
    /\ msg_from = [ty |-> 0]

\* tx.v = ..; tx.r = ..; tx.s = ..
Restamp ==
    /\ \E v \in (IF msg_tx.ty = 0 THEN LegacyVs ELSE TypedVs), rs \in Stamps :
          msg_tx' = [msg_tx EXCEPT !.v = v, !.r = rs[1], !.s = rs[2]]
    /\ UNCHANGED <<msg_chain, msg_out, msg_from>>

\* msg_out := msg_tx.sign_msg(&msg_chain)
SignMsg ==
    /\ msg_out' = sign_msg(msg_tx, msg_chain)
    /\ msg_from' = msg_tx
    /\ UNCHANGED <<msg_tx, msg_chain>>

-----------------------------------------------------------------------------
(* Properties of the message                                               *)

\* the items every message carries after its first ones
TailItems(t) ==
    <<EncodeUint(t.gas), EncodeNilable(t.to), EncodeUint(t.value),
      EncodeValue(t.data)>>

\* the message as C15 states it, item by item
MsgItems(t, chain_id) ==
    CASE t.ty = 0 ->
           <<EncodeUint(t.nonce), EncodeUint(t.gas_price)>> \o TailItems(t)
           \o (IF t.v \in {U256Of(0), U256Of(1), U256Of(27), U256Of(28)}
               THEN <<>>
               ELSE <<EncodeUint(chain_id), <<128>>, <<128>>>>)
      [] t.ty = 1 ->
           <<EncodeUint(t.chain_id), EncodeUint(t.nonce),
             EncodeUint(t.gas_price)>> \o TailItems(t)
           \o <<EncodeAccessList(t.access_list)>>
      [] t.ty = 2 ->
           <<EncodeUint(t.chain_id), EncodeUint(t.nonce),
             EncodeUint(t.max_priority_fee_per_gas),
             EncodeUint(t.max_fee_per_gas)>> \o TailItems(t)
           \o <<EncodeAccessList(t.access_list)>>

\* the list of a message: all of it for Legacy, what follows the type byte
\* for the typed variants
MsgList(t, m) == IF t.ty = 0 THEN m ELSE Tail(m)

\* t and u differ at most in r and s, and in v when they are typed
SameUnsigned(t, u) ==
    [t EXCEPT !.r = u.r, !.s = u.s,
              !.v = IF t.ty = 0 THEN t.v ELSE u.v] = u

\* C15: sign_msg(chain_id) is, for Legacy with v in {0, 1, 27, 28}, the list
\* of the 6 items nonce, gas_price, gas, to, value, data, and for Legacy with
\* any other v that list with chain_id, 0, 0 appended; for AccessList the
\* byte 1 and the list of the 8 items chain_id, nonce, gas_price, gas, to,
\* value, data, access_list; for DynamicFee the byte 2 and the list of 9 items
\* with max_priority_fee_per_gas, max_fee_per_gas for gas_price.  It does not
\* depend on r or s, nor on v for a typed transaction.
C15_SignMsg ==
    msg_out # NotRun =>
        /\ msg_out.kind = "Ok"
        /\ msg_from.ty # 0 => msg_out.val[1] = msg_from.ty
        /\ WholeList(MsgList(msg_from, msg_out.val))
        /\ Iter(MsgList(msg_from, msg_out.val)) = MsgItems(msg_from, msg_chain)
        /\ Len(Iter(MsgList(msg_from, msg_out.val)))
              = CASE msg_from.ty = 1 -> 8
                  [] msg_from.ty = 2 -> 9
                  [] OTHER ->
                       IF msg_from.v \in {U256Of(0), U256Of(1), U256Of(27),
                                          U256Of(28)}
                       THEN 6 ELSE 9
        /\ SameUnsigned(msg_tx, msg_from)
              => sign_msg(msg_tx, msg_chain) = msg_out

-----------------------------------------------------------------------------
(* The receipt specification: the encodings of one receipt whose inclusion *)
(* metadata is rewritten between calls                                     *)

\* Receipt::succ
succ(r) == r.status = U64Of(1)

\* the consensus fields of the receipts
ReceiptTypes ==
    {None, Some(U64Of(0)), Some(U64Of(1)), Some(U64Of(2)), Some(U64Of(3))}
RootAndStatus ==
    {<<None, U64Of(0)>>, <<None, U64Of(1)>>, <<None, U64Of(2)>>,
     <<Some(KeyA), U64Of(1)>>, <<Some(<<1>>), U64Of(0)>>}
LogLists == {<<>>, <<LogB, LogA>>}

\* the metadata fields of a receipt and of a log; a label names the one
\* field that is set, or all, or none
ReceiptLabels ==
    {"transaction_hash", "contract_address", "gas_used", "block_hash",
     "block_number", "transaction_index"}
LogLabels ==
    {"log.block_number", "log.transaction_hash", "log.transaction_index",
     "log.block_hash", "log.log_index", "log.removed"}
Labels == {"none", "all"} \cup ReceiptLabels \cup LogLabels

Set(label, field) == label = "all" \/ label = field

\* a log with its metadata
LabelledLog(log, i, label) ==
    [address |-> log.address, topics |-> log.topics, data |-> log.data,
     block_number |->
        IF Set(label, "log.block_number") THEN U64Of(5) ELSE U64Of(0),
     transaction_hash |->
        IF Set(label, "log.transaction_hash") THEN JunkHash
        ELSE Zeros(H256_BYTES),
     transaction_index |->
        IF Set(label, "log.transaction_index") THEN U64Of(3) ELSE U64Of(0),
     block_hash |->
        IF Set(label, "log.block_hash") THEN KeyA ELSE Zeros(H256_BYTES),
     log_index |-> IF Set(label, "log.log_index") THEN U64Of(i) ELSE U64Of(0),
     removed |-> Set(label, "log.removed")]

\* a receipt with its metadata
LabelledReceipt(ty, root, status, logs, label) ==
    [ty |-> ty, root |-> root, status |-> status,
     cumulative_gas_used |-> U64Of(63000),
     logs_bloom |-> Zeros(BLOOM_BYTE_LENGTH),
     logs |-> [i \in 1..Len(logs) |-> LabelledLog(logs[i], i, label)],
     transaction_hash |->
        IF Set(label, "transaction_hash") THEN JunkHash
        ELSE Zeros(H256_BYTES),
     contract_address |->
        IF Set(label, "contract_address") THEN Some(AddrA) ELSE None,
     gas_used |-> IF Set(label, "gas_used") THEN U64Of(21000) ELSE U64Of(0),
     block_hash |-> IF Set(label, "block_hash") THEN Some(KeyA) ELSE None,
     block_number |->
        IF Set(label, "block_number") THEN Some(U256Of(5)) ELSE None,
     transaction_index |->
        IF Set(label, "transaction_index") THEN U64Of(3) ELSE U64Of(0)]

\* the logs of a receipt without their metadata
PlainLogs(r) ==
    [i \in 1..Len(r.logs) |->
        [address |-> r.logs[i].address, topics |-> r.logs[i].topics,
         data |-> r.logs[i].data]]

ReceiptInit ==
    /\ \E ty \in ReceiptTypes, rs \in RootAndStatus, logs \in LogLists :
          rcpt = LabelledReceipt(ty, rs[1], rs[2], logs, "none")
    /\ status_out = NotRun
    /\ succ_out = NotRun
    /\ rbytes_out = NotRun

\* the node fills in the inclusion metadata of the receipt and of its logs
Relabel ==
    /\ \E label \in Labels :
          rcpt' = LabelledReceipt(rcpt.ty, rcpt.root, rcpt.status,
                                  PlainLogs(rcpt), label)
    /\ UNCHANGED <<status_out, succ_out, rbytes_out>>

\* status_out := rcpt.status_encoding()
StatusEncoding ==
    /\ status_out' = Ok(status_encoding(rcpt))
    /\ UNCHANGED <<rcpt, succ_out, rbytes_out>>

\* succ_out := rcpt.succ()
Succ ==
    /\ succ_out' = Ok(succ(rcpt))
    /\ UNCHANGED <<rcpt, status_out, rbytes_out>>

\* rbytes_out := rcpt.rlp_bytes()
RlpBytes ==
    /\ rbytes_out' = rlp_bytes(rcpt)
    /\ UNCHANGED <<rcpt, status_out, succ_out>>

-----------------------------------------------------------------------------
(* Properties of the receipts                                              *)

\* C16: status_encoding returns the root bytes when root is Some, whatever
\* the status; when root is None it returns the empty string for status 0 and
\* the byte 1 otherwise; and the result is the single byte 1 exactly when
\* succ() is true.
C16_StatusEncoding ==
    /\ status_out # NotRun =>
          status_out =
              Ok(IF rcpt.root # None THEN rcpt.root[1]
                 ELSE IF rcpt.status = U64Of(0) THEN <<>> ELSE <<1>>)
    /\ (status_out # NotRun /\ succ_out # NotRun) =>
          (status_out.val = <<1>> <=> succ_out.val)

\* the bytes of a receipt after its type byte, if it has one
ReceiptList(r, b) ==
    IF r.ty \in {Some(U64Of(1)), Some(U64Of(2))} THEN Tail(b) ELSE b

\* the logs item: one list of 3 items (address, topics, data) per log
LogsShape(r, item) ==
    /\ Len(Iter(item)) = Len(r.logs)
    /\ \A i \in 1..Len(r.logs) :
          /\ Len(Iter(Iter(item)[i])) = 3
          /\ DecodeFixed(Iter(Iter(item)[i])[1], H160_BYTES)
                = Ok(r.logs[i].address)
          /\ Len(Iter(Iter(Iter(item)[i])[2])) = Len(r.logs[i].topics)
          /\ DecodeValue(Iter(Iter(item)[i])[3]) = Ok(r.logs[i].data)

\* C17: rlp_bytes is the list of the 4 items status_encoding(),
\* cumulative_gas_used, logs_bloom, logs; the byte 1 precedes the list for
\* type 1 and the byte 2 for type 2, outside the list; type 0 and an absent
\* type have no prefix and encode alike.
C17_ReceiptBytes ==
    (rbytes_out # NotRun /\ rcpt.ty # Some(U64Of(3))) =>
        /\ rbytes_out.kind = "Ok"
        /\ rcpt.ty = Some(U64Of(1)) => rbytes_out.val[1] = 1
        /\ rcpt.ty = Some(U64Of(2)) => rbytes_out.val[1] = 2
        /\ WholeList(ReceiptList(rcpt, rbytes_out.val))
        /\ Len(Iter(ReceiptList(rcpt, rbytes_out.val))) = 4
        /\ DecodeValue(Iter(ReceiptList(rcpt, rbytes_out.val))[1])
              = Ok(status_encoding(rcpt))
        /\ DecodeUint(Iter(ReceiptList(rcpt, rbytes_out.val))[2], U64_BYTES)
              = Ok(rcpt.cumulative_gas_used)
        /\ DecodeValue(Iter(ReceiptList(rcpt, rbytes_out.val))[3])
              = Ok(rcpt.logs_bloom)
        /\ LogsShape(rcpt, Iter(ReceiptList(rcpt, rbytes_out.val))[4])
        /\ rlp_bytes([rcpt EXCEPT !.ty = None])
              = rlp_bytes([rcpt EXCEPT !.ty = Some(U64Of(0))])

C17_Witness ==
    /\ rcpt.ty = Some(U64Of(2))
    /\ Len(rcpt.logs) = 2
    /\ IsOk(rbytes_out)
    /\ rbytes_out.val[1] = 2
    /\ rbytes_out.val[2] = 249

\* two receipts agree on type, root, status, cumulative_gas_used, logs_bloom
\* and on the address, topics and data of every log
SameConsensus(r, q) ==
    /\ r.ty = q.ty /\ r.root = q.root /\ r.status = q.status
    /\ r.cumulative_gas_used = q.cumulative_gas_used
    /\ r.logs_bloom = q.logs_bloom
    /\ PlainLogs(r) = PlainLogs(q)

\* the header as Block::new leaves it after the receipts of one receipt
RootOf(r) == SetReceiptsRoot([header |-> HeaderPlain, trie_calls |-> 0], <<r>>)

\* a step keeps the encoding and the receipts_root if it keeps the consensus
\* fields
MetadataIgnored ==
    (rcpt' # rcpt /\ SameConsensus(rcpt, rcpt') /\ rcpt.ty # Some(U64Of(3))) =>
        /\ rlp_bytes(rcpt') = rlp_bytes(rcpt)
        /\ RootOf(rcpt').val.header.receipts_root
              = RootOf(rcpt).val.header.receipts_root

\* C18: receipts that agree on the consensus fields and differ in the
\* metadata of the receipt or of its logs have the same rlp_bytes() and give
\* the same receipts_root in Block::new.
C18_MetadataIgnored == [][MetadataIgnored]_vars

C18_Witness ==
    /\ rcpt.logs # <<>>
    /\ rcpt.logs[1].removed
    /\ rcpt.logs[2].log_index = U64Of(2)
    /\ rcpt.transaction_hash = JunkHash
    /\ IsOk(rbytes_out)

-----------------------------------------------------------------------------
(* The header specification: one header is encoded, hashed and decoded     *)

\* impl Decodable for BlockNonce: a string of exactly 8 bytes
DecodeBlockNonce(b) ==
    Try(DecodeValue(b),
        LAMBDA tmp : IF Len(tmp) # U64_BYTES THEN Err("RlpInvalidLength")
                     ELSE Ok(tmp))

\* impl Decodable for Nilable<SH256>
DecodeNilableHash(b) ==
    IF IsEmpty(b) THEN Ok(None)
    ELSE Try(DecodeH256(b), LAMBDA n : Ok(Some(n)))

BlockHeaderOf(rs) ==
    IF AllOk(rs)
    THEN Ok([parent_hash |-> rs[1].val, sha3_uncles |-> rs[2].val,
             miner |-> rs[3].val, state_root |-> rs[4].val,
             transactions_root |-> rs[5].val, receipts_root |-> rs[6].val,
             logs_bloom |-> rs[7].val, difficulty |-> rs[8].val,
             number |-> rs[9].val, gas_limit |-> rs[10].val,
             gas_used |-> rs[11].val, timestamp |-> rs[12].val,
             extra_data |-> rs[13].val, mix_hash |-> rs[14].val,
             nonce |-> rs[15].val, base_fee_per_gas |-> rs[16].val,
             withdrawals_root |-> rs[17].val])
    ELSE FirstErr(rs)

\* #[derive(RlpDecodable)] struct BlockHeader
DecodeHeader(b) ==
    BlockHeaderOf(<<ValAt(b, 0, DecodeH256), ValAt(b, 1, DecodeH256),
                    ValAt(b, 2, DecodeH160), ValAt(b, 3, DecodeH256),
                    ValAt(b, 4, DecodeH256), ValAt(b, 5, DecodeH256),
                    ValAt(b, 6, DecodeValue), ValAt(b, 7, DecodeU256),
                    ValAt(b, 8, DecodeU64), ValAt(b, 9, DecodeU64),
                    ValAt(b, 10, DecodeU64), ValAt(b, 11, DecodeU64),
                    ValAt(b, 12, DecodeValue), ValAt(b, 13, DecodeH256),
                    ValAt(b, 14, DecodeBlockNonce), ValAt(b, 15, DecodeU256),
                    ValAt(b, 16, DecodeNilableHash)>>)

\* the headers under test
HeaderNonces ==
    {Zeros(U64_BYTES), U64Of(66), [i \in 1..U64_BYTES |-> 255]}
HeaderWithdrawalsRoots == {None, Some(JunkHash), Some(Zeros(H256_BYTES))}
HeaderExtraData == {<<>>, <<0>>, <<128>>, Data56}
HeaderDifficulties == {U256Of(0), U256Of(131072), BigValue}
HeaderBlooms ==
    {Zeros(BLOOM_BYTE_LENGTH), [i \in 1..BLOOM_BYTE_LENGTH |-> 255]}

HeaderInit ==
    /\ \E n \in HeaderNonces, w \in HeaderWithdrawalsRoots,
          e \in HeaderExtraData, d \in HeaderDifficulties,
          l \in HeaderBlooms :
          hdr = [HeaderPlain EXCEPT !.nonce = n, !.withdrawals_root = w,
                                    !.extra_data = e, !.difficulty = d,
                                    !.logs_bloom = l]
    /\ hdr_bytes = NotRun
    /\ hdr_hash = NotRun
    /\ hdr_back = NotRun

\* hdr_bytes := rlp::encode(&hdr)
HeaderEncode ==
    /\ hdr_bytes' = Ok(EncodeHeader(hdr))
    /\ UNCHANGED <<hdr, hdr_hash, hdr_back>>

\* hdr_hash := hdr.hash()
HeaderHash ==
    /\ hdr_hash' = Ok(BlockHeader_hash(hdr))
    /\ UNCHANGED <<hdr, hdr_bytes, hdr_back>>

\* hdr_back := rlp::decode::<BlockHeader>(&hdr_bytes)
HeaderDecode ==
    /\ hdr_bytes # NotRun
    /\ hdr_back' = DecodeHeader(hdr_bytes.val)
    /\ UNCHANGED <<hdr, hdr_bytes, hdr_hash>>

-----------------------------------------------------------------------------
(* Properties of the header                                                *)

\* the 17 fields in the declared order, each decoded from its item
HeaderItems(h, items) ==
    /\ Len(items) = 17
    /\ DecodeH256(items[1]) = Ok(h.parent_hash)
    /\ DecodeH256(items[2]) = Ok(h.sha3_uncles)
    /\ DecodeH160(items[3]) = Ok(h.miner)
    /\ DecodeH256(items[4]) = Ok(h.state_root)
    /\ DecodeH256(items[5]) = Ok(h.transactions_root)
    /\ DecodeH256(items[6]) = Ok(h.receipts_root)
    /\ DecodeValue(items[7]) = Ok(h.logs_bloom)
    /\ DecodeU256(items[8]) = Ok(h.difficulty)
    /\ DecodeU64(items[9]) = Ok(h.number)
    /\ DecodeU64(items[10]) = Ok(h.gas_limit)
    /\ DecodeU64(items[11]) = Ok(h.gas_used)
    /\ DecodeU64(items[12]) = Ok(h.timestamp)
    /\ DecodeValue(items[13]) = Ok(h.extra_data)
    /\ DecodeH256(items[14]) = Ok(h.mix_hash)
    /\ items[15] = <<128 + U64_BYTES>> \o h.nonce
    /\ DecodeU256(items[16]) = Ok(h.base_fee_per_gas)
    /\ IF h.withdrawals_root = None THEN items[17] = NULL_RLP
       ELSE DecodeH256(items[17]) = Ok(h.withdrawals_root[1])

\* C19: BlockHeader::hash() is keccak256 of the RLP list of the 17 header
\* fields in the declared order; the nonce is exactly 8 big-endian bytes, an
\* absent withdrawals_root is the RLP-null item, so the list always has 17
\* items, and decoding the encoding returns the same header.
C19_HeaderHash ==
    /\ hdr_bytes # NotRun =>
          /\ WholeList(hdr_bytes.val)
          /\ HeaderItems(hdr, Iter(hdr_bytes.val))
    /\ (hdr_bytes # NotRun /\ hdr_hash # NotRun) =>
          hdr_hash.val = keccak_hash(hdr_bytes.val)
    /\ hdr_back # NotRun => hdr_back = Ok(hdr)

C19_Witness ==
    /\ hdr.withdrawals_root = None
    /\ hdr.nonce = Zeros(U64_BYTES)
    /\ hdr.extra_data = <<0>>
    /\ hdr_bytes # NotRun
    /\ hdr_hash # NotRun
    /\ hdr_back = Ok(hdr)

-----------------------------------------------------------------------------
(* The ordering specification: three transactions are compared pairwise    *)

\* impl Ord for [u8]: the first differing byte decides, then the lengths
Mismatches(x, y) ==
    {i \in 1..Len(x) : i <= Len(y) /\ x[i] # y[i]}
FirstOf(positions) == CHOOSE i \in positions : \A j \in positions : i <= j
CmpAt(x, y, k) == IF x[k] < y[k] THEN "Less" ELSE "Greater"
CmpLen(x, y) ==
    IF Len(x) < Len(y) THEN "Less"
    ELSE IF Len(x) > Len(y) THEN "Greater" ELSE "Equal"
CmpBytes(x, y) ==
    IF Mismatches(x, y) = {} THEN CmpLen(x, y)
    ELSE CmpAt(x, y, FirstOf(Mismatches(x, y)))

\* variant: the shorter encoding comes first
cmp_ByLength(a, b) ==
    IF Len(to_bytes(a)) < Len(to_bytes(b)) THEN "Less"
    ELSE IF Len(to_bytes(a)) > Len(to_bytes(b)) THEN "Greater"
    ELSE CmpBytes(to_bytes(a), to_bytes(b))

\* impl Ord for TransactionInner
cmp(a, b) == CmpBytes(to_bytes(a), to_bytes(b))

\* impl PartialOrd for TransactionInner
partial_cmp(a, b) == Some(cmp(a, b))

\* #[derive(PartialEq, Eq)] on TransactionInner and on its three structs
eq(a, b) == a = b

\* the transactions under comparison
OrdTxs ==
    {[BlockTxLegacy EXCEPT !.to = to, !.data = data] :
        to \in ToValues, data \in {<<>>, Data56}}
    \cup {[BlockTxLegacy EXCEPT !.nonce = U64Of(300)]}
    \cup {[FeeTxAccessList EXCEPT !.access_list = al] :
            al \in {<<>>, <<[address |-> AddrA, storage_keys |-> <<KeyA>>]>>}}
    \cup {[BlockTxDynamicFee EXCEPT !.to = to] : to \in ToValues}

\* the compared pairs of positions: a with b both ways, b with c, a with c
OrdPairs == {<<1, 2>>, <<2, 1>>, <<2, 3>>, <<1, 3>>}

OrdInit ==
    /\ ord_txs \in [1..3 -> OrdTxs]
    /\ ord_out = [p \in OrdPairs |-> NotRun]

\* ord_out[i, j] := ord_txs[i].partial_cmp(&ord_txs[j])
Cmp ==
    /\ \E p \in OrdPairs :
          ord_out' = [ord_out EXCEPT
                         ![p] = Ok(partial_cmp(ord_txs[p[1]], ord_txs[p[2]]))]
    /\ UNCHANGED ord_txs

-----------------------------------------------------------------------------
(* Properties of the ordering                                              *)

\* x comes before y in the lexicographic order of byte strings
LexLess(x, y) ==
    \E k \in 1..Len(y) :
        /\ \A i \in 1..(k - 1) : i <= Len(x) /\ x[i] = y[i]
        /\ k - 1 <= Len(x)
        /\ (k = Len(x) + 1 \/ x[k] < y[k])

RanCmp(i, j) == ord_out[<<i, j>>] # NotRun
OutCmp(i, j) == ord_out[<<i, j>>].val[1]
Ordered(i, j) == OutCmp(i, j) \in {"Less", "Equal"}

\* C20: cmp on TransactionInner is the lexicographic order of to_bytes(); it
\* is antisymmetric, transitive and total, and cmp(a, b) is Equal exactly
\* when a == b, for transactions of all three variants.
C20_TotalOrder ==
    /\ \A p \in OrdPairs :
          RanCmp(p[1], p[2]) =>
             /\ OutCmp(p[1], p[2]) \in {"Less", "Equal", "Greater"}
             /\ OutCmp(p[1], p[2]) = "Less"
                   <=> LexLess(to_bytes(ord_txs[p[1]]), to_bytes(ord_txs[p[2]]))
             /\ OutCmp(p[1], p[2]) = "Greater"
                   <=> LexLess(to_bytes(ord_txs[p[2]]), to_bytes(ord_txs[p[1]]))
             /\ OutCmp(p[1], p[2]) = "Equal"
                   <=> eq(ord_txs[p[1]], ord_txs[p[2]])
    /\ (RanCmp(1, 2) /\ RanCmp(2, 1)) =>
          /\ OutCmp(1, 2) = "Less" <=> OutCmp(2, 1) = "Greater"
          /\ OutCmp(1, 2) = "Equal" <=> OutCmp(2, 1) = "Equal"
          /\ (Ordered(1, 2) /\ Ordered(2, 1)) => eq(ord_txs[1], ord_txs[2])
    /\ (RanCmp(1, 2) /\ RanCmp(2, 3) /\ RanCmp(1, 3)) =>
          /\ (Ordered(1, 2) /\ Ordered(2, 3)) => Ordered(1, 3)
          /\ (Ordered(1, 2) /\ Ordered(2, 3) /\ OutCmp(1, 3) = "Equal") =>
                OutCmp(1, 2) = "Equal" /\ OutCmp(2, 3) = "Equal"

C20_Witness ==
    /\ ord_txs[1].ty = 2 /\ ord_txs[2].ty = 0 /\ ord_txs[3].ty = 0
    /\ Len(ord_txs[3].data) > Len(ord_txs[2].data)
    /\ RanCmp(1, 2) /\ RanCmp(2, 1) /\ RanCmp(2, 3) /\ RanCmp(1, 3)
    /\ OutCmp(1, 2) = "Less"
    /\ OutCmp(2, 3) = "Less"
    /\ OutCmp(1, 3) = "Less"
    /\ OutCmp(2, 1) = "Greater"

-----------------------------------------------------------------------------
(* Receipt::compare and Block::compare (block.rs).  The text of an Err is   *)
(* the list of its entries; an entry "[tag.field] not match ..." is the     *)
(* pair of its tag and its field.                                           *)

\* the cmp! macro over the fields in the order of the code: one entry per
\* field in which want and got differ
FieldDiffs(want, got, tag, fields) ==
    SelectSeq([k \in 1..Len(fields) |-> <<tag, fields[k]>>],
              LAMBDA e : want[e[2]] # got[e[2]])

\* the fields Receipt::compare passes to cmp!
ReceiptCompared ==
    <<"ty", "root", "status", "logs_bloom", "transaction_hash",
      "contract_address", "gas_used">>
LogCompared == <<"address", "topics", "data", "transaction_hash">>

\* reason.join("\n"), or Ok(()) when no entry was pushed
Joined(reason) == IF reason # <<>> THEN Err(reason) ELSE Ok(<<>>)

\* Receipt::compare: got.logs[i] for every i below want.logs.len()
Receipt_compare(want, got) ==
    IF Len(want.logs) > Len(got.logs)
    THEN Panic("index out of bounds")
    ELSE Joined(FieldDiffs(want, got, <<>>, ReceiptCompared)
                \o Concat([i \in 1..Len(want.logs) |->
                              FieldDiffs(want.logs[i], got.logs[i],
                                         <<"logs", i - 1>>, LogCompared)]))

\* the fields Block::compare passes to cmp!
HeaderCompared ==
    <<"parent_hash", "sha3_uncles", "miner", "state_root",
      "withdrawals_root", "transactions_root", "receipts_root", "logs_bloom",
      "difficulty", "number", "gas_limit", "gas_used", "timestamp",
      "mix_hash", "nonce", "base_fee_per_gas">>
TxCompared ==
    <<"block_number", "gas", "gas_price", "max_fee_per_gas",
      "max_priority_fee_per_gas", "hash", "input", "nonce", "to", "value",
      "type", "access_list", "v", "r", "s">>

\* the transactions of got whose hash no transaction of want has
Unexpected(want, got) ==
    SelectSeq([i \in 1..Len(got) |-> <<<<"txs", i - 1>>, "unexpected">>],
              LAMBDA e : \A j \in 1..Len(want) :
                             want[j].hash # got[e[1][2] + 1].hash)

\* the branch of Block::compare on the transactions
TxDiffs(want, got) ==
    IF Len(want) # Len(got)
    THEN <<<<<<"txs">>, "len">>>>
         \o (IF Len(want) < Len(got) THEN Unexpected(want, got) ELSE <<>>)
    ELSE Concat([i \in 1..Len(want) |->
                    FieldDiffs(want[i], got[i], <<"tx", i - 1>>, TxCompared)])

\* Block::compare
Block_compare(want, got) ==
    Joined(FieldDiffs(want.header, got.header, <<"header">>, HeaderCompared)
           \o FieldDiffs(want, got, <<"header">>, <<"withdrawals">>)
           \o TxDiffs(want.transactions, got.transactions))

-----------------------------------------------------------------------------
(* The compare specification: one pair of receipts and one pair of blocks  *)

\* the receipt every other receipt is compared with
BaseReceipt == LabelledReceipt(None, None, U64Of(1), <<LogB, LogA>>, "none")

\* receipts that differ from it in the metadata named by a label, in one
\* consensus field, or in the logs
ReceiptVariants ==
    {LabelledReceipt(None, None, U64Of(1), <<LogB, LogA>>, label) :
        label \in Labels}
    \cup {[BaseReceipt EXCEPT !.ty = Some(U64Of(2))],
          [BaseReceipt EXCEPT !.root = Some(KeyA)],
          [BaseReceipt EXCEPT !.status = U64Of(0)],
          [BaseReceipt EXCEPT !.cumulative_gas_used = U64Of(1)],
          [BaseReceipt EXCEPT !.logs_bloom = [i \in 1..BLOOM_BYTE_LENGTH |-> 255]],
          [BaseReceipt EXCEPT !.logs = SubSeq(@, 1, 1)],
          [BaseReceipt EXCEPT !.logs = @ \o SubSeq(@, 1, 1)],
          [BaseReceipt EXCEPT !.logs[2].data = <<7>>],
          [BaseReceipt EXCEPT !.logs[1].address = Addr1],
          [BaseReceipt EXCEPT !.logs[2].topics = <<Topic46>>]}

\* the value a changed field of a header or of a transaction takes
HeaderOther ==
    [parent_hash |-> JunkHash, sha3_uncles |-> JunkHash, miner |-> Addr1,
     state_root |-> JunkHash, transactions_root |-> JunkHash,
     receipts_root |-> JunkHash,
     logs_bloom |-> [i \in 1..BLOOM_BYTE_LENGTH |-> 255],
     difficulty |-> BigValue, number |-> U64Of(999999),
     gas_limit |-> U64Of(999999), gas_used |-> U64Of(999999),
     timestamp |-> U64Of(999999), extra_data |-> <<1>>,
     mix_hash |-> JunkHash, nonce |-> U64Of(66),
     base_fee_per_gas |-> U256Of(8), withdrawals_root |-> Some(JunkHash)]
TxOther ==
    [block_hash |-> Some(JunkHash), block_number |-> Some(U64Of(9)),
     from |-> Some(AddrA), gas |-> U64Of(1), gas_price |-> Some(U256Of(1)),
     max_fee_per_gas |-> Some(U256Of(1)),
     max_priority_fee_per_gas |-> Some(U256Of(1)), hash |-> JunkHash,
     input |-> <<9>>, nonce |-> U64Of(77), to |-> Some(Addr1),
     transaction_index |-> Some(U64Of(4)), value |-> U256Of(5),
     type |-> U64Of(2), access_list |-> Some(<<>>),
     chain_id |-> Some(U256Of(9)), v |-> U256Of(99), r |-> U256Of(99),
     s |-> U256Of(99)]

\* the block every other block is compared with
BaseBlock ==
    [header |-> HeaderPlain,
     transactions |-> <<LegacyTarget(BlockTxLegacy),
                        AccessListTarget(FeeTxAccessList)>>,
     withdrawals |-> Some(<<Withdrawal1>>)]

\* blocks that differ from it in one header field, in the withdrawals, in the
\* number of transactions or in one field of the second transaction
BlockVariants ==
    {BaseBlock}
    \cup {[BaseBlock EXCEPT !.header[f] = HeaderOther[f]] :
            f \in DOMAIN HeaderOther}
    \cup {[BaseBlock EXCEPT !.transactions[2][f] = TxOther[f]] :
            f \in DOMAIN TxOther}
    \cup {[BaseBlock EXCEPT !.withdrawals = None],
          [BaseBlock EXCEPT !.transactions = SubSeq(@, 1, 1)],
          [BaseBlock EXCEPT
              !.transactions =
                  @ \o <<[LegacyTarget(BlockTxLegacy) EXCEPT
                             !.hash = JunkHash]>>]}

CompareInit ==
    /\ \/ /\ rc_want = BaseReceipt /\ rc_got \in ReceiptVariants
          /\ bc_want = BaseBlock /\ bc_got = BaseBlock
       \/ /\ rc_want \in ReceiptVariants /\ rc_got = BaseReceipt
          /\ bc_want = BaseBlock /\ bc_got = BaseBlock
       \/ /\ rc_want = BaseReceipt /\ rc_got = BaseReceipt
          /\ bc_want = BaseBlock /\ bc_got \in BlockVariants
       \/ /\ rc_want = BaseReceipt /\ rc_got = BaseReceipt
          /\ bc_want \in BlockVariants /\ bc_got = BaseBlock
    /\ rc_out = NotRun
    /\ bc_out = NotRun

\* rc_out := Receipt::compare(&rc_want, &rc_got)
ReceiptCompare ==
    /\ rc_out' = Receipt_compare(rc_want, rc_got)
    /\ UNCHANGED <<rc_want, rc_got, bc_want, bc_got, bc_out>>

\* bc_out := Block::compare(&bc_want, &bc_got)
BlockCompare ==
    /\ bc_out' = Block_compare(bc_want, bc_got)
    /\ UNCHANGED <<rc_want, rc_got, rc_out, bc_want, bc_got>>

-----------------------------------------------------------------------------
(* Properties of the comparisons                                           *)

\* an Err names the field under the tag
Names(out, tag, field) ==
    /\ out.kind = "Err"
    /\ \E k \in 1..Len(out.err) : out.err[k] = <<tag, field>>

\* every field of want that differs in got is named
AllNamed(out, want, got, tag) ==
    \A f \in DOMAIN want : want[f] # got[f] => Names(out, tag, f)

\* the k-th items of two lists: every differing field is named, and so is an
\* item that only one list has
ItemsNamed(out, want, got, tagname) ==
    /\ \A i \in 1..Len(want) :
          IF i <= Len(got)
          THEN AllNamed(out, want[i], got[i], <<tagname, i - 1>>)
          ELSE out.kind = "Err"
    /\ Len(got) > Len(want) => out.kind = "Err"

\* C26: Receipt::compare and Block::compare return a result for every pair
\* of inputs, also when got has fewer or more logs or transactions than
\* want; for every field in which want and got differ (header field,
\* withdrawals, field of a transaction, field of a log) the Err names that
\* field, all of them in one result; Ok(()) is returned only when want and
\* got differ in no field.
C26_CompareReportsAll ==
    /\ rc_out # NotRun =>
          /\ rc_out.kind \in {"Ok", "Err"}
          /\ \A f \in DOMAIN rc_want \ {"logs"} :
                rc_want[f] # rc_got[f] => Names(rc_out, <<>>, f)
          /\ ItemsNamed(rc_out, rc_want.logs, rc_got.logs, "logs")
          /\ rc_out.kind = "Ok" => rc_want = rc_got
    /\ bc_out # NotRun =>
          /\ bc_out.kind \in {"Ok", "Err"}
          /\ AllNamed(bc_out, bc_want.header, bc_got.header, <<"header">>)
          /\ bc_want.withdrawals # bc_got.withdrawals =>
                Names(bc_out, <<"header">>, "withdrawals")
          /\ ItemsNamed(bc_out, bc_want.transactions, bc_got.transactions,
                        "tx")
          /\ bc_out.kind = "Ok" => bc_want = bc_got

-----------------------------------------------------------------------------
(* FetchState (state.rs)                                                   *)

\* FetchState::get_addr
get_addr(fs) ==
    IF fs.access_list # None THEN Some(fs.access_list[1].address)
    ELSE IF fs.code # None THEN Some(fs.code[1])
    ELSE None

\* FetchState::is_match
is_match(fs, other) == get_addr(fs) = get_addr(other)

\* variant: true of the keys that the list does not hold
Contains_Absent(keys, key) == \A i \in 1..Len(keys) : keys[i] # key

\* a.storage_keys.contains(&key)
Contains(keys, key) == \E i \in 1..Len(keys) : keys[i] = key

\* for key in &b.storage_keys { if a.storage_keys.contains(&key) { push } }
RECURSIVE PushKeys(_, _)
PushKeys(keys, others) ==
    IF others = <<>> THEN keys
    ELSE PushKeys(IF Contains(keys, Head(others))
                  THEN Append(keys, Head(others)) ELSE keys,
                  Tail(others))

\* the match on (self.access_list, other.access_list)
MergeAccessList(a, b) ==
    IF a = None THEN b
    ELSE IF b = None THEN a
    ELSE IF a[1] = b[1] THEN a
    ELSE Some([a[1] EXCEPT
                  !.storage_keys = PushKeys(@, b[1].storage_keys)])

\* FetchState::merge: self after the call
merge(fs, other) ==
    IF ~is_match(fs, other) THEN fs
    ELSE [code |-> IF fs.code = None /\ other.code # None THEN other.code
                   ELSE fs.code,
          access_list |-> MergeAccessList(fs.access_list, other.access_list)]

-----------------------------------------------------------------------------
(* The fetch specification: one FetchState is merged with another          *)

MaxFetchKeys == 2     \* storage keys of an access tuple of a FetchState

FetchAddrs == {AddrA, Addr1}
FetchKeys == {KeyA, JunkHash}
FetchTuples ==
    {[address |-> a, storage_keys |-> ks] :
        a \in FetchAddrs, ks \in SeqsUpTo(FetchKeys, MaxFetchKeys)}
FetchStates ==
    {[access_list |-> al, code |-> c] :
        al \in {None} \cup {Some(t) : t \in FetchTuples},
        c \in {None} \cup {Some(a) : a \in FetchAddrs}}

FetchInit ==
    /\ fs_self \in FetchStates
    /\ fs_other \in FetchStates
    /\ fs_before = NotRun

\* fs_self.merge(fs_other)
Merge ==
    /\ fs_before = NotRun
    /\ fs_before' = Ok(fs_self)
    /\ fs_self' = merge(fs_self, fs_other)
    /\ UNCHANGED fs_other

-----------------------------------------------------------------------------
(* Properties of the merge                                                 *)

\* the storage keys of a state, none without an access list
KeysOf(fs) ==
    IF fs.access_list = None THEN <<>> ELSE fs.access_list[1].storage_keys
KeySet(fs) == {KeysOf(fs)[i] : i \in 1..Len(KeysOf(fs))}

BothLists(before, other) ==
    /\ before.access_list # None
    /\ other.access_list # None
    /\ before.access_list # other.access_list

\* what merge made of before, given other
MergedAs(before, after, other) ==
    IF get_addr(before) # get_addr(other) THEN after = before
    ELSE /\ after.code =
               (IF before.code = None THEN other.code ELSE before.code)
         /\ before.access_list = None =>
               after.access_list = other.access_list
         /\ (before.access_list # None /\ ~BothLists(before, other)) =>
               after.access_list = before.access_list
         /\ BothLists(before, other) =>
               /\ after.access_list[1].address
                     = before.access_list[1].address
               /\ KeysOf(after) =
                     KeysOf(before)
                     \o SelectSeq(KeysOf(other),
                                  LAMBDA k : k \in KeySet(before))
         /\ before.access_list # None =>
               /\ KeySet(after) = KeySet(before)
               /\ Len(KeysOf(after)) >= Len(KeysOf(before))

\* C27: merge leaves self unchanged when get_addr differs; otherwise code is
\* taken from other only when self has none, an absent access list is
\* replaced by other's, and with both lists present and unequal exactly the
\* keys of other that self already holds are appended: a key only other
\* holds is never added to the keys of self, whose set stays what it was.
C27_Merge ==
    fs_before # NotRun => MergedAs(fs_before.val, fs_self, fs_other)

C27_Witness ==
    /\ fs_before # NotRun
    /\ BothLists(fs_before.val, fs_other)
    /\ KeysOf(fs_before.val) = <<KeyA>>
    /\ KeysOf(fs_other) = <<JunkHash, KeyA>>
    /\ KeysOf(fs_self) = <<KeyA, KeyA>>
    /\ fs_before.val.code = None
    /\ fs_self.code = Some(AddrA)

-----------------------------------------------------------------------------
(* AccessListResult (state.rs)                                             *)

\* .iter().position(|item| &item.address == addr): the least index, from 1,
\* or 0 for None
Position(list, addr) ==
    IF \E i \in 1..Len(list) : list[i].address = addr
    THEN CHOOSE i \in 1..Len(list) :
             /\ list[i].address = addr
             /\ \A j \in 1..(i - 1) : list[j].address # addr
    ELSE 0

\* variant: the entry is pushed without looking for the address
get_or_insert_Push(res, addr) ==
    [res EXCEPT !.access_list =
        Append(@, [address |-> addr, storage_keys |-> <<>>])]

\* AccessListResult::get_or_insert: self after the call
get_or_insert(res, addr) ==
    IF Position(res.access_list, addr) # 0 THEN res
    ELSE [res EXCEPT !.access_list =
             Append(@, [address |-> addr, storage_keys |-> <<>>])]

\* AccessListResult::ensure: self after the call
ensure(res, caller, to) ==
    IF to = None THEN get_or_insert(res, caller)
    ELSE get_or_insert(get_or_insert(res, caller), to[1])

-----------------------------------------------------------------------------
(* The access specification: calls of ensure and get_or_insert on one      *)
(* AccessListResult                                                        *)

MaxEntries == 2       \* entries of the access list before the first call

AclAddrs == {AddrA, Addr1, Zeros(H160_BYTES)}
AclTuples ==
    {[address |-> a, storage_keys |-> ks] :
        a \in AclAddrs, ks \in {<<>>, <<KeyA>>}}

\* the addresses of a list are pairwise distinct
Distinct(list) ==
    \A i \in 1..Len(list) : \A j \in 1..Len(list) :
        list[i].address = list[j].address => i = j

AccessInit ==
    /\ \E list \in SeqsUpTo(AclTuples, MaxEntries) :
          /\ Distinct(list)
          /\ acl = [access_list |-> list, error |-> None,
                    gas_used |-> U64Of(21000)]
    /\ acl_prev = acl
    /\ acl_call = NotRun
    /\ acl_seen = {}

\* acl.ensure(&caller, to)
Ensure ==
    \E caller \in AclAddrs, to \in {None} \cup {Some(a) : a \in AclAddrs} :
        /\ acl' = ensure(acl, caller, to)
        /\ acl_prev' = acl
        /\ acl_call' = [op |-> "ensure", caller |-> caller, to |-> to]
        /\ acl_seen' = acl_seen \cup {caller}
                          \cup (IF to = None THEN {} ELSE {to[1]})

\* acl.get_or_insert(&addr)
GetOrInsert ==
    \E addr \in AclAddrs :
        /\ acl' = get_or_insert(acl, addr)
        /\ acl_prev' = acl
        /\ acl_call' = [op |-> "get_or_insert", addr |-> addr]
        /\ acl_seen' = acl_seen \cup {addr}

-----------------------------------------------------------------------------
(* Properties of the access list                                           *)

\* the addresses passed to a call
Passed(call) ==
    IF call = NotRun THEN {}
    ELSE IF call.op = "get_or_insert" THEN {call.addr}
    ELSE {call.caller} \cup (IF call.to = None THEN {} ELSE {call.to[1]})

Addresses(list) == {list[i].address : i \in 1..Len(list)}

\* what the last call made of the list before it
CallEffect(before, after, call) ==
    /\ Len(after) >= Len(before)
    /\ SubSeq(after, 1, Len(before)) = before
    /\ \A i \in (Len(before) + 1)..Len(after) :
          /\ after[i].storage_keys = <<>>
          /\ after[i].address \in Passed(call)
    /\ Len(after) - Len(before)
          = Cardinality(Passed(call) \ Addresses(before))
    /\ Passed(call) \subseteq Addresses(after)

AccessKept ==
    /\ Distinct(acl.access_list)
    /\ acl_seen \subseteq Addresses(acl.access_list)
    /\ CallEffect(acl_prev.access_list, acl.access_list, acl_call)
    /\ acl.error = acl_prev.error /\ acl.gas_used = acl_prev.gas_used

\* a call with the arguments of the call before it adds nothing
RepeatAddsNothing == acl_call' = acl_call => acl' = acl

\* C30: from an access list with pairwise distinct addresses, after every
\* sequence of ensure and get_or_insert calls the addresses are pairwise
\* distinct, every address passed is present, the entries a call found keep
\* their position and storage keys, a new entry is appended at the end with
\* no storage keys, and repeating a call adds nothing; ensure with
\* to == Some(caller) adds one entry.
C30_AccessList == []AccessKept /\ [][RepeatAddsNothing]_vars

C30_Witness ==
    /\ acl_call = [op |-> "ensure", caller |-> Addr1, to |-> Some(Addr1)]
    /\ acl_prev.access_list
          = <<[address |-> AddrA, storage_keys |-> <<KeyA>>]>>
    /\ acl.access_list
          = <<[address |-> AddrA, storage_keys |-> <<KeyA>>],
              [address |-> Addr1, storage_keys |-> <<>>]>>
    /\ acl_seen = {AddrA, Addr1}

-----------------------------------------------------------------------------
(* Specifications: each runs one part of the program, the rest stands idle *)

CodecIdle ==
    /\ tx = [ty |-> 0]
    /\ wire = <<>>
    /\ decoded = NotRun
    /\ txhash = NotRun
    /\ damage = "idle"

SignerIdle ==
    /\ stx = [ty |-> 0]
    /\ prvkey = 0
    /\ sign_chain = Zeros(U256_BYTES)
    /\ overflow_checks = FALSE
    /\ signed_bytes = <<>>
    /\ rec_sig = NoSig
    /\ sign_out = NotRun
    /\ recover_chain = Zeros(U256_BYTES)
    /\ sender_out = NotRun

BloomIdle ==
    /\ bloom = <<>>
    /\ added = {}
    /\ built = NotRun
    /\ built_from = <<>>

BlockIdle ==
    /\ hdr_in = [number |-> U64Of(0)]
    /\ txs_in = <<>>
    /\ receipts_in = <<>>
    /\ wd_in = None
    /\ block_out = NotRun
    /\ trie_calls = 0

FeeIdle ==
    /\ fee_tx = [ty |-> 0]
    /\ fee_base = None
    /\ price_out = NotRun
    /\ tip_out = NotRun
    /\ cost_out = NotRun
    /\ proj_out = NotRun

MsgIdle ==
    /\ msg_tx = [ty |-> 0]
    /\ msg_chain = Zeros(U256_BYTES)
    /\ msg_out = NotRun
    /\ msg_from = [ty |-> 0]

ReceiptIdle ==
    /\ rcpt = [ty |-> None]
    /\ status_out = NotRun
    /\ succ_out = NotRun
    /\ rbytes_out = NotRun

HeaderIdle ==
    /\ hdr = [number |-> Zeros(U64_BYTES)]
    /\ hdr_bytes = NotRun
    /\ hdr_hash = NotRun
    /\ hdr_back = NotRun

OrdIdle ==
    /\ ord_txs = <<>>
    /\ ord_out = <<>>

CompareIdle ==
    /\ rc_want = [logs |-> <<>>]
    /\ rc_got = [logs |-> <<>>]
    /\ rc_out = NotRun
    /\ bc_want = [transactions |-> <<>>]
    /\ bc_got = [transactions |-> <<>>]
    /\ bc_out = NotRun

FetchIdle ==
    /\ fs_self = [code |-> None]
    /\ fs_other = [code |-> None]
    /\ fs_before = NotRun

AccessIdle ==
    /\ acl = [access_list |-> <<>>]
    /\ acl_prev = [access_list |-> <<>>]
    /\ acl_call = NotRun
    /\ acl_seen = {}

\* the variables each specification leaves alone
notCodec == <<signerVars, bloomVars, blockVars, feeVars, msgVars,
              receiptVars, headerVars, ordVars, compareVars, fetchVars,
              accessVars>>
notSigner == <<codecVars, bloomVars, blockVars, feeVars, msgVars,
               receiptVars, headerVars, ordVars, compareVars, fetchVars,
               accessVars>>
notBloom == <<codecVars, signerVars, blockVars, feeVars, msgVars,
              receiptVars, headerVars, ordVars, compareVars, fetchVars,
              accessVars>>
notBlock == <<codecVars, signerVars, bloomVars, feeVars, msgVars,
              receiptVars, headerVars, ordVars, compareVars, fetchVars,
              accessVars>>
notFee == <<codecVars, signerVars, bloomVars, blockVars, msgVars,
            receiptVars, headerVars, ordVars, compareVars, fetchVars,
            accessVars>>
notMsg == <<codecVars, signerVars, bloomVars, blockVars, feeVars,
            receiptVars, headerVars, ordVars, compareVars, fetchVars,
            accessVars>>
notReceipt == <<codecVars, signerVars, bloomVars, blockVars, feeVars,
                msgVars, headerVars, ordVars, compareVars, fetchVars,
                accessVars>>
notHeader == <<codecVars, signerVars, bloomVars, blockVars, feeVars,
               msgVars, receiptVars, ordVars, compareVars, fetchVars,
               accessVars>>
notOrd == <<codecVars, signerVars, bloomVars, blockVars, feeVars, msgVars,
            receiptVars, headerVars, compareVars, fetchVars, accessVars>>
notCompare == <<codecVars, signerVars, bloomVars, blockVars, feeVars,
                msgVars, receiptVars, headerVars, ordVars, fetchVars,
                accessVars>>
notFetch == <<codecVars, signerVars, bloomVars, blockVars, feeVars,
              msgVars, receiptVars, headerVars, ordVars, compareVars,
              accessVars>>
notAccess == <<codecVars, signerVars, bloomVars, blockVars, feeVars,
               msgVars, receiptVars, headerVars, ordVars, compareVars,
               fetchVars>>

CodecStart ==
    /\ CodecInit
    /\ SignerIdle
    /\ BloomIdle
    /\ BlockIdle
    /\ FeeIdle
    /\ MsgIdle
    /\ ReceiptIdle
    /\ HeaderIdle
    /\ OrdIdle
    /\ CompareIdle
    /\ FetchIdle
    /\ AccessIdle

CodecStep ==
    \/ ToBytes /\ UNCHANGED notCodec
    \/ Truncate /\ UNCHANGED notCodec
    \/ Retag /\ UNCHANGED notCodec
    \/ Extend /\ UNCHANGED notCodec
    \/ Pad /\ UNCHANGED notCodec
    \/ FromBytes /\ UNCHANGED notCodec
    \/ Hash /\ UNCHANGED notCodec

SpecCodec == CodecStart /\ [][CodecStep]_vars

SignerStart ==
    /\ SignerInit
    /\ CodecIdle
    /\ BloomIdle
    /\ BlockIdle
    /\ FeeIdle
    /\ MsgIdle
    /\ ReceiptIdle
    /\ HeaderIdle
    /\ OrdIdle
    /\ CompareIdle
    /\ FetchIdle
    /\ AccessIdle

SignerStep ==
    \/ Sign /\ UNCHANGED notSigner
    \/ Sender /\ UNCHANGED notSigner

SpecSigner == SignerStart /\ [][SignerStep]_vars

BloomStart ==
    /\ BloomInit
    /\ CodecIdle
    /\ SignerIdle
    /\ BlockIdle
    /\ FeeIdle
    /\ MsgIdle
    /\ ReceiptIdle
    /\ HeaderIdle
    /\ OrdIdle
    /\ CompareIdle
    /\ FetchIdle
    /\ AccessIdle

BloomStep ==
    \/ BloomAdd /\ UNCHANGED notBloom
    \/ CreateBloom /\ UNCHANGED notBloom

SpecBloom == BloomStart /\ [][BloomStep]_vars

BlockStart ==
    /\ BlockInit
    /\ CodecIdle
    /\ SignerIdle
    /\ BloomIdle
    /\ FeeIdle
    /\ MsgIdle
    /\ ReceiptIdle
    /\ HeaderIdle
    /\ OrdIdle
    /\ CompareIdle
    /\ FetchIdle
    /\ AccessIdle

BlockStep == BlockNew /\ UNCHANGED notBlock

SpecBlock == BlockStart /\ [][BlockStep]_vars

FeeStart ==
    /\ FeeInit
    /\ CodecIdle
    /\ SignerIdle
    /\ BloomIdle
    /\ BlockIdle
    /\ MsgIdle
    /\ ReceiptIdle
    /\ HeaderIdle
    /\ OrdIdle
    /\ CompareIdle
    /\ FetchIdle
    /\ AccessIdle

FeeStep ==
    \/ GasPrice /\ UNCHANGED notFee
    \/ EffectiveGasTip /\ UNCHANGED notFee
    \/ Cost /\ UNCHANGED notFee
    \/ ToTransaction /\ UNCHANGED notFee

SpecFee == FeeStart /\ [][FeeStep]_vars

MsgStart ==
    /\ MsgInit
    /\ CodecIdle
    /\ SignerIdle
    /\ BloomIdle
    /\ BlockIdle
    /\ FeeIdle
    /\ ReceiptIdle
    /\ HeaderIdle
    /\ OrdIdle
    /\ CompareIdle
    /\ FetchIdle
    /\ AccessIdle

MsgStep ==
    \/ Restamp /\ UNCHANGED notMsg
    \/ SignMsg /\ UNCHANGED notMsg

SpecMsg == MsgStart /\ [][MsgStep]_vars

ReceiptStart ==
    /\ ReceiptInit
    /\ CodecIdle
    /\ SignerIdle
    /\ BloomIdle
    /\ BlockIdle
    /\ FeeIdle
    /\ MsgIdle
    /\ HeaderIdle
    /\ OrdIdle
    /\ CompareIdle
    /\ FetchIdle
    /\ AccessIdle

ReceiptStep ==
    \/ Relabel /\ UNCHANGED notReceipt
    \/ StatusEncoding /\ UNCHANGED notReceipt
    \/ Succ /\ UNCHANGED notReceipt
    \/ RlpBytes /\ UNCHANGED notReceipt

SpecReceipt == ReceiptStart /\ [][ReceiptStep]_vars

HeaderStart ==
    /\ HeaderInit
    /\ CodecIdle
    /\ SignerIdle
    /\ BloomIdle
    /\ BlockIdle
    /\ FeeIdle
    /\ MsgIdle
    /\ ReceiptIdle
    /\ OrdIdle
    /\ CompareIdle
    /\ FetchIdle
    /\ AccessIdle

HeaderStep ==
    \/ HeaderEncode /\ UNCHANGED notHeader
    \/ HeaderHash /\ UNCHANGED notHeader
    \/ HeaderDecode /\ UNCHANGED notHeader

SpecHeader == HeaderStart /\ [][HeaderStep]_vars

OrdStart ==
    /\ OrdInit
    /\ CodecIdle
    /\ SignerIdle
    /\ BloomIdle
    /\ BlockIdle
    /\ FeeIdle
    /\ MsgIdle
    /\ ReceiptIdle
    /\ HeaderIdle
    /\ CompareIdle
    /\ FetchIdle
    /\ AccessIdle

OrdStep == Cmp /\ UNCHANGED notOrd

SpecOrd == OrdStart /\ [][OrdStep]_vars

CompareStart ==
    /\ CompareInit
    /\ CodecIdle
    /\ SignerIdle
    /\ BloomIdle
    /\ BlockIdle
    /\ FeeIdle
    /\ MsgIdle
    /\ ReceiptIdle
    /\ HeaderIdle
    /\ OrdIdle
    /\ FetchIdle
    /\ AccessIdle

CompareStep ==
    \/ ReceiptCompare /\ UNCHANGED notCompare
    \/ BlockCompare /\ UNCHANGED notCompare

SpecCompare == CompareStart /\ [][CompareStep]_vars

FetchStart ==
    /\ FetchInit
    /\ CodecIdle
    /\ SignerIdle
    /\ BloomIdle
    /\ BlockIdle
    /\ FeeIdle
    /\ MsgIdle
    /\ ReceiptIdle
    /\ HeaderIdle
    /\ OrdIdle
    /\ CompareIdle
    /\ AccessIdle

FetchStep == Merge /\ UNCHANGED notFetch

SpecFetch == FetchStart /\ [][FetchStep]_vars

AccessStart ==
    /\ AccessInit
    /\ CodecIdle
    /\ SignerIdle
    /\ BloomIdle
    /\ BlockIdle
    /\ FeeIdle
    /\ MsgIdle
    /\ ReceiptIdle
    /\ HeaderIdle
    /\ OrdIdle
    /\ CompareIdle
    /\ FetchIdle

AccessStep ==
    \/ Ensure /\ UNCHANGED notAccess
    \/ GetOrInsert /\ UNCHANGED notAccess

SpecAccess == AccessStart /\ [][AccessStep]_vars

=============================================================================
